---- MODULE Spec2Model ----
(***************************************************************************)
(* A model of the generic AVL tree of DSA-Lib (avltree.c) and of the stack  *)
(* and queue adapters over the linked list (stack.c, queue.c), and of the   *)
(* linked list (linkedlist.c) and the binary heap (heap.c) themselves.     *)
(* A tree is a value: NULL or a node record [data, left, right, height].   *)
(* The recursive C functions are RECURSIVE operators that return the new   *)
(* subtree root together with the status flags they set, the rotation      *)
(* calls they made, and whether a NULL pointer was dereferenced.           *)
(***************************************************************************)
EXTENDS Integers, Sequences, FiniteSets, TLC

\* ---------------------------------------------------------------- bounds
MaxKey == 4
MaxPayload == 1

Keys == 1..MaxKey
Payloads == 0..MaxPayload
\* an element is dataSize bytes: the key the comparator looks at, and the rest
Elements == [key : Keys, val : Payloads]
Probe(k) == [key |-> k, val |-> 0]

\* outcomes of the two malloc calls of _AVLTree_getNewNode
AllocOutcomes == {"ok", "node_fail", "data_fail"}

\* insertion order that builds a 12-node tree of height 4, and the keys the
\* caller goes on to use on that tree
DeepSeed == <<1, 2, 3, 5, 6, 4, 10, 11, 12, 8, 9, 7>>
DeepKeys == {1, 10, 11, 12}

\* root:    avl->root, the tree as a value
\* crashed: the process died on a NULL dereference inside a call
\* last:    the last public call: its argument, what malloc did, the STATUS
\*          returned, the rotation calls made, the elements handed to the
\*          callback (or the element AVLTree_search returned)
\* stored:  history: the elements inserted with STATUS_OK and not deleted
\*          with STATUS_OK since
\* avl:     the tree handle the caller holds: NULL, or the AVLTree struct
\*          (dataSize, cmp) whose root field is `root`
\* script:  the inserts and deletes the test scenario has yet to make
\* stack:   the Stack struct: its linked list and stackSize
\* pushed:  history: the elements pushed with STATUS_OK, oldest first, less
\*          one (the newest) for every pop that returned STATUS_OK
\* queue:   the Queue struct: its linked list
\* queued:  history: the elements enqueued with STATUS_OK, oldest first, less
\*          one (the oldest) for every dequeue that returned STATUS_OK
\* seen:    the last stack, queue, list or heap call: its argument, the
\*          STATUS returned and the element copied out
\* linkedlist: a LinkedList the caller uses directly
\* heap:    the Heap struct: its ArrayList (capacity and elements)
\* held:    history: the Heap_push calls that returned STATUS_OK less the
\*          Heap_pop calls that returned STATUS_OK
\* bst:     the BST struct: its root, dataSize and cmp
\* allocated: the blocks malloc has handed out for tree nodes and their
\*          element copies and free has not taken back, kept by the calls
\*          that follow node addresses
VARIABLES root, crashed, last, stored, avl, script, stack, pushed, queue, queued, seen,
          linkedlist, heap, held, bst, allocated

vars == <<root, crashed, last, stored, avl, script, stack, pushed, queue, queued, seen,
          linkedlist, heap, held, bst, allocated>>

\* what a call on the tree leaves alone, and what a call on an adapter does
storeVars == <<linkedlist, heap, held>>
adapterVars == <<stack, pushed, queue, queued, seen, linkedlist, heap, held>>
treeVars == <<root, crashed, last, stored, avl, script, bst, allocated>>

\* ------------------------------------------------------------ data model
NULL == [null |-> TRUE]

\* the comparator of the tests: a three-way comparison on the key
compare_int(a, b) == a.key - b.key

AVLNode(data, left, right, height) ==
    [data |-> data, left |-> left, right |-> right, height |-> height]

Max(a, b) == IF a > b THEN a ELSE b

Range(seq) == {seq[i] : i \in 1..Len(seq)}

\* ---------------------------------------------------- balancing helpers
\* an empty subtree counted as height 0
Mut_getHeight(node) == IF node = NULL THEN 0 ELSE node.height

_AVLTree_getHeight(node) == IF node = NULL THEN -1 ELSE node.height

\* a height that is not one more than the taller child's
Mut_updateHeight(n) ==
    IF n = NULL THEN n
    ELSE [n EXCEPT !.height =
            Max(_AVLTree_getHeight(n.left), _AVLTree_getHeight(n.right))]

_AVLTree_updateHeight(n) ==
    IF n = NULL THEN n
    ELSE [n EXCEPT !.height =
            1 + Max(_AVLTree_getHeight(n.left), _AVLTree_getHeight(n.right))]

\* a balance factor with the sign turned round
Mut_getBalanceFactor(n) ==
    IF n = NULL THEN 0
    ELSE _AVLTree_getHeight(n.right) - _AVLTree_getHeight(n.left)

_AVLTree_getBalanceFactor(n) ==
    IF n = NULL THEN 0
    ELSE _AVLTree_getHeight(n.left) - _AVLTree_getHeight(n.right)

_AVLTree_getNewNode(element, alloc) ==
    IF alloc = "ok" THEN AVLNode(element, NULL, NULL, 0) ELSE NULL

\* what a rotation yields when it reads through a NULL pointer
SEGV == [segv |-> TRUE]

\* a right rotation that re-attaches the wrong grandchild
Mut_rightRotate(n) ==
    IF n = NULL THEN SEGV
    ELSE IF n.left = NULL THEN SEGV
    ELSE LET x == n.left
             y == x.left
             lowered == _AVLTree_updateHeight([n EXCEPT !.left = y])
         IN  _AVLTree_updateHeight([x EXCEPT !.right = lowered])

_AVLTree_rightRotate(n) ==
    IF n = NULL THEN SEGV
    ELSE IF n.left = NULL THEN SEGV
    ELSE LET x == n.left
             y == x.right
             lowered == _AVLTree_updateHeight([n EXCEPT !.left = y])
         IN  _AVLTree_updateHeight([x EXCEPT !.right = lowered])

\* a left rotation that re-attaches the wrong grandchild
Mut_leftRotate(n) ==
    IF n = NULL THEN SEGV
    ELSE IF n.right = NULL THEN SEGV
    ELSE LET x == n.right
             y == x.right
             lowered == _AVLTree_updateHeight([n EXCEPT !.right = y])
         IN  _AVLTree_updateHeight([x EXCEPT !.left = lowered])

_AVLTree_leftRotate(n) ==
    IF n = NULL THEN SEGV
    ELSE IF n.right = NULL THEN SEGV
    ELSE LET x == n.right
             y == x.left
             lowered == _AVLTree_updateHeight([n EXCEPT !.right = y])
         IN  _AVLTree_updateHeight([x EXCEPT !.left = lowered])

\* one rotation call: the function, the key of its argument (0 for NULL),
\* the ancestor that rebalances, and whether the pointers it reads exist
KeyOf(n) == IF n = NULL THEN 0 ELSE n.data.key
RotCall(fn, n, by) ==
    [fn |-> fn, at |-> KeyOf(n), by |-> KeyOf(by),
     ok |-> n # NULL /\ (IF fn = "rightRotate" THEN n.left # NULL ELSE n.right # NULL)]

\* ------------------------------------------------------------ insertion
InsertStatus0 == [isInserted |-> FALSE, isDuplicate |-> FALSE, isAllocFailed |-> FALSE]

\* the value a recursive call hands back: the new subtree root, the status
\* struct, the rotation calls made so far, and whether the call died
Ret(node, status, rot) == [node |-> node, status |-> status, rot |-> rot, segv |-> FALSE]
Died(status, rot) == [node |-> NULL, status |-> status, rot |-> rot, segv |-> TRUE]

\* a single rotation of n, asked for by ancestor `by`; r carries status and trace
Rotate1(fn, n, by, r) ==
    LET res == IF fn = "rightRotate" THEN _AVLTree_rightRotate(n)
                                     ELSE _AVLTree_leftRotate(n)
        rot == Append(r.rot, RotCall(fn, n, by))
    IN  IF res = SEGV THEN Died(r.status, rot) ELSE Ret(res, r.status, rot)

\* an unwind that never rotates
Mut_InsertRebalance(n, data, r) == Ret(n, r.status, r.rot)

\* a rebalancing that answers every imbalance with a single rotation
Mut_InsertRebalanceSingle(n, data, r) ==
    LET balanceFactor == _AVLTree_getBalanceFactor(n)
    IN  IF balanceFactor > 1 /\ n.left # NULL
        THEN Rotate1("rightRotate", n, n, r)
        ELSE IF balanceFactor < -1 /\ n.right # NULL
        THEN Rotate1("leftRotate", n, n, r)
        ELSE Ret(n, r.status, r.rot)

\* step 4 of _AVLTree_insertNode: n is the ancestor with its height updated
InsertRebalance(n, data, r) ==
    LET balanceFactor == _AVLTree_getBalanceFactor(n)
    IN  IF balanceFactor > 1 /\ n.left # NULL /\ compare_int(data, n.left.data) < 0
        THEN Rotate1("rightRotate", n, n, r)
        ELSE IF balanceFactor < -1 /\ n.right # NULL /\ compare_int(data, n.right.data) > 0
        THEN Rotate1("leftRotate", n, n, r)
        ELSE IF balanceFactor > 1 /\ n.left # NULL /\ compare_int(data, n.left.data) > 0
        THEN LET first == Rotate1("leftRotate", n.left, n, r)
             IN  IF first.segv THEN first
                 ELSE Rotate1("rightRotate", [n EXCEPT !.left = first.node], n, first)
        ELSE IF balanceFactor < -1 /\ n.right # NULL /\ compare_int(data, n.right.data) < 0
        THEN LET first == Rotate1("rightRotate", n.right, n, r)
             IN  IF first.segv THEN first
                 ELSE Rotate1("leftRotate", [n EXCEPT !.right = first.node], n, first)
        ELSE Ret(n, r.status, r.rot)

RECURSIVE _AVLTree_insertNode(_, _, _, _)
_AVLTree_insertNode(n, data, alloc, status) ==
    IF n = NULL
    THEN LET new == _AVLTree_getNewNode(data, alloc)
         IN  IF new # NULL
             THEN Ret(new, [status EXCEPT !.isInserted = TRUE], <<>>)
             ELSE Ret(new, [status EXCEPT !.isAllocFailed = TRUE], <<>>)
    ELSE IF compare_int(data, n.data) < 0
    THEN LET r == _AVLTree_insertNode(n.left, data, alloc, status)
         IN  IF r.segv THEN r
             ELSE InsertRebalance(_AVLTree_updateHeight([n EXCEPT !.left = r.node]), data, r)
    ELSE IF compare_int(data, n.data) > 0
    THEN LET r == _AVLTree_insertNode(n.right, data, alloc, status)
         IN  IF r.segv THEN r
             ELSE InsertRebalance(_AVLTree_updateHeight([n EXCEPT !.right = r.node]), data, r)
    ELSE Ret(n, [status EXCEPT !.isDuplicate = TRUE], <<>>)

InsertReturn(status) ==
    IF status.isInserted THEN "STATUS_OK"
    ELSE IF status.isAllocFailed THEN "STATUS_ERR_ALLOC"
    ELSE IF status.isDuplicate THEN "STATUS_ERR_DUPLICATE_KEY"
    ELSE "STATUS_ERR_UNKNOWN"

\* ------------------------------------------------------------- deletion
DeleteStatus0 == [isDeleted |-> FALSE, isKeyNotFound |-> FALSE]

\* a descent that does not stop at the last node and runs off the tree
RECURSIVE Mut_getMin(_)
Mut_getMin(n) ==
    IF n = NULL THEN NULL
    ELSE Mut_getMin(n.left)

RECURSIVE _AVLTree_getMin(_)
_AVLTree_getMin(n) ==
    IF n = NULL THEN NULL
    ELSE IF n.left = NULL THEN n
    ELSE _AVLTree_getMin(n.left)

\* steps 2 and 3 of _AVLTree_deleteNode: n is what the slot holds after step 1
DeleteRebalance(n0, r) ==
    IF n0 = NULL THEN Ret(NULL, r.status, r.rot)
    ELSE
    LET n == _AVLTree_updateHeight(n0)
        balanceFactor == _AVLTree_getBalanceFactor(n)
    IN  IF balanceFactor > 1 /\ _AVLTree_getBalanceFactor(n.left) >= 0
        THEN Rotate1("rightRotate", n, n, r)
        ELSE IF balanceFactor > 1 /\ _AVLTree_getBalanceFactor(n.left) < 0
        THEN LET first == Rotate1("leftRotate", n.left, n, r)
             IN  IF first.segv THEN first
                 ELSE Rotate1("rightRotate", [n EXCEPT !.left = first.node], n, first)
        ELSE IF balanceFactor < -1 /\ _AVLTree_getBalanceFactor(n.right) <= 0
        THEN Rotate1("leftRotate", n, n, r)
        ELSE IF balanceFactor < -1 /\ _AVLTree_getBalanceFactor(n.right) > 0
        THEN \* the code rotates root->left here and stores it in root->left
             LET first == Rotate1("rightRotate", n.left, n, r)
             IN  IF first.segv THEN first
                 ELSE Rotate1("leftRotate", [n EXCEPT !.left = first.node], n, first)
        ELSE Ret(n, r.status, r.rot)

RECURSIVE _AVLTree_deleteNode(_, _, _)
_AVLTree_deleteNode(n, key, status) ==
    IF n = NULL
    THEN Ret(NULL, [status EXCEPT !.isKeyNotFound = TRUE], <<>>)
    ELSE IF compare_int(key, n.data) < 0
    THEN LET r == _AVLTree_deleteNode(n.left, key, status)
         IN  IF r.segv THEN r ELSE DeleteRebalance([n EXCEPT !.left = r.node], r)
    ELSE IF compare_int(key, n.data) > 0
    THEN LET r == _AVLTree_deleteNode(n.right, key, status)
         IN  IF r.segv THEN r ELSE DeleteRebalance([n EXCEPT !.right = r.node], r)
    ELSE IF n.left = NULL /\ n.right = NULL
    THEN DeleteRebalance(NULL, Ret(NULL, [status EXCEPT !.isDeleted = TRUE], <<>>))
    ELSE IF n.left = NULL
    THEN DeleteRebalance(n.right, Ret(NULL, [status EXCEPT !.isDeleted = TRUE], <<>>))
    ELSE IF n.right = NULL
    THEN DeleteRebalance(n.left, Ret(NULL, [status EXCEPT !.isDeleted = TRUE], <<>>))
    ELSE LET inorderSuccessor == _AVLTree_getMin(n.right)
             r == _AVLTree_deleteNode(n.right, inorderSuccessor.data, status)
         IN  IF inorderSuccessor = NULL THEN Ret(n, status, <<>>)
             ELSE IF r.segv THEN r
             ELSE DeleteRebalance(
                    [n EXCEPT !.data = inorderSuccessor.data, !.right = r.node],
                    Ret(NULL, [r.status EXCEPT !.isDeleted = TRUE], r.rot))

DeleteReturn(status) ==
    IF status.isDeleted THEN "STATUS_OK"
    ELSE IF status.isKeyNotFound THEN "STATUS_ERR_KEY_NOT_FOUND"
    ELSE "STATUS_ERR_UNKNOWN"

\* ---------------------------------------------------- search, traversal
\* a search that descends the wrong way
RECURSIVE Mut_searchNode(_, _)
Mut_searchNode(n, key) ==
    IF n = NULL THEN n
    ELSE IF compare_int(key, n.data) = 0 THEN n
    ELSE IF compare_int(key, n.data) < 0 THEN Mut_searchNode(n.right, key)
    ELSE Mut_searchNode(n.left, key)

RECURSIVE _AVLTree_searchNode(_, _)
_AVLTree_searchNode(n, key) ==
    IF n = NULL THEN n
    ELSE IF compare_int(key, n.data) = 0 THEN n
    ELSE IF compare_int(key, n.data) < 0 THEN _AVLTree_searchNode(n.left, key)
    ELSE _AVLTree_searchNode(n.right, key)

\* the sequence of elements the callback receives
\* a traversal whose post-order callback runs before the right subtree
RECURSIVE Mut_forEachNode(_, _)
Mut_forEachNode(n, order) ==
    IF n = NULL THEN <<>>
    ELSE (IF order = "TRAVERSAL_PREORDER" THEN <<n.data>> ELSE <<>>)
         \o Mut_forEachNode(n.left, order)
         \o (IF order \in {"TRAVERSAL_INORDER", "TRAVERSAL_POSTORDER"} THEN <<n.data>> ELSE <<>>)
         \o Mut_forEachNode(n.right, order)

RECURSIVE _AVLTree_forEachNode(_, _)
_AVLTree_forEachNode(n, order) ==
    IF n = NULL THEN <<>>
    ELSE (IF order = "TRAVERSAL_PREORDER" THEN <<n.data>> ELSE <<>>)
         \o _AVLTree_forEachNode(n.left, order)
         \o (IF order = "TRAVERSAL_INORDER" THEN <<n.data>> ELSE <<>>)
         \o _AVLTree_forEachNode(n.right, order)
         \o (IF order = "TRAVERSAL_POSTORDER" THEN <<n.data>> ELSE <<>>)

\* ------------------------------------------------------ public operations
\* what the caller saw of the last call: arg is the element, key or callback
\* pointer passed (NULL when absent), on tells whether a tree was passed
Call(op, arg, alloc, status, rot, out) ==
    [op |-> op, arg |-> arg, alloc |-> alloc, status |-> status, rot |-> rot, out |-> out,
     on |-> "tree"]

NoArg == [key |-> 0, val |-> 0]

\* the four operations below are the calls with a tree and a non-NULL pointer
\* a call that dereferences NULL ends the process: nothing runs afterwards,
\* and root keeps the value the caller last saw
AVLTree_insert(element, alloc) ==
    /\ ~crashed
    /\ LET r == _AVLTree_insertNode(root, element, alloc, InsertStatus0)
           ret == IF r.segv THEN "SIGSEGV" ELSE InsertReturn(r.status)
           malloc == IF r.status.isDuplicate THEN "not_called"
                     ELSE IF alloc = "ok" THEN "ok" ELSE "failed"
       IN  /\ root' = IF r.segv THEN root ELSE r.node
           /\ crashed' = r.segv
           /\ last' = Call("insert", element, malloc, ret, r.rot, <<>>)
           /\ stored' = IF ret = "STATUS_OK" THEN stored \cup {element} ELSE stored
    /\ UNCHANGED avl
    /\ UNCHANGED adapterVars
    /\ UNCHANGED <<bst, allocated>>

AVLTree_delete(key) ==
    /\ ~crashed
    /\ LET r == _AVLTree_deleteNode(root, key, DeleteStatus0)
           ret == IF r.segv THEN "SIGSEGV" ELSE DeleteReturn(r.status)
       IN  /\ root' = IF r.segv THEN root ELSE r.node
           /\ crashed' = r.segv
           /\ last' = Call("delete", key, "not_called", ret, r.rot, <<>>)
           /\ stored' = IF ret = "STATUS_OK"
                        THEN {e \in stored : compare_int(e, key) # 0}
                        ELSE stored
    /\ UNCHANGED avl
    /\ UNCHANGED adapterVars
    /\ UNCHANGED <<bst, allocated>>

\* a search that hands the caller the subtree it found as the new root
Mut_AVLTree_search(key) ==
    /\ ~crashed
    /\ LET found == _AVLTree_searchNode(root, key)
       IN  /\ last' = Call("search", key, "not_called", "returned", <<>>,
                           IF found # NULL THEN <<found.data>> ELSE <<>>)
           /\ root' = IF found # NULL THEN found ELSE root
    /\ UNCHANGED <<crashed, stored, avl>>
    /\ UNCHANGED adapterVars
    /\ UNCHANGED <<bst, allocated>>

AVLTree_search(key) ==
    /\ ~crashed
    /\ LET found == _AVLTree_searchNode(root, key)
       IN  last' = Call("search", key, "not_called", "returned", <<>>,
                        IF found # NULL THEN <<found.data>> ELSE <<>>)
    /\ UNCHANGED <<root, crashed, stored, avl>>
    /\ UNCHANGED adapterVars
    /\ UNCHANGED <<bst, allocated>>

Traverse(op, order) ==
    /\ ~crashed
    /\ last' = Call(op, NoArg, "not_called", "STATUS_OK", <<>>,
                    _AVLTree_forEachNode(root, order))
    /\ UNCHANGED <<root, crashed, stored, avl>>
    /\ UNCHANGED adapterVars
    /\ UNCHANGED <<bst, allocated>>

AVLTree_traverseInorder == Traverse("traverseInorder", "TRAVERSAL_INORDER")
AVLTree_traversePreorder == Traverse("traversePreorder", "TRAVERSAL_PREORDER")
AVLTree_traversePostorder == Traverse("traversePostorder", "TRAVERSAL_POSTORDER")

\* ------------------------------------------- creation, absent arguments
\* element sizes and comparators a caller may hand to AVLTree_init
\* a non-NULL pointer to a function or to a buffer of the caller
Ptr(name) == [ptr |-> name]

DataSizes == {0, 4}
Comparators == {NULL, Ptr("compare_int")}
InitAllocOutcomes == {"ok", "fail"}

AVLTree(dataSize, cmp) == [dataSize |-> dataSize, cmp |-> cmp]

\* the tree of the tests: AVLTree_init(sizeof(int), compare_int)
TestTree == AVLTree(4, Ptr("compare_int"))

\* an init that rejects only when both arguments are bad
Mut_NewAVLTree(datasize, cmp, alloc) ==
    IF cmp = NULL /\ datasize = 0 THEN NULL
    ELSE IF alloc # "ok" THEN NULL
    ELSE AVLTree(datasize, cmp)

\* what AVLTree_init returns
NewAVLTree(datasize, cmp, alloc) ==
    IF cmp = NULL \/ datasize = 0 THEN NULL
    ELSE IF alloc # "ok" THEN NULL
    ELSE AVLTree(datasize, cmp)

\* the caller holds no tree and asks for one
AVLTree_init(datasize, cmp, alloc) ==
    /\ ~crashed
    /\ avl = NULL
    /\ avl' = NewAVLTree(datasize, cmp, alloc)
    /\ root' = IF avl' = NULL THEN root ELSE NULL
    /\ last' = Call("init", [datasize |-> datasize, cmp |-> cmp],
                    IF cmp = NULL \/ datasize = 0 THEN "not_called"
                    ELSE IF alloc = "ok" THEN "ok" ELSE "failed",
                    "returned", <<>>, <<>>)
    /\ UNCHANGED <<crashed, stored>>
    /\ UNCHANGED adapterVars
    /\ UNCHANGED <<bst, allocated>>

OnTree(h) == IF h = NULL THEN "NULL" ELSE "tree"

\* AVLTree_destroy frees every node and the struct; the caller drops the handle
AVLTree_destroy(h) ==
    /\ ~crashed
    /\ IF h = NULL
       THEN UNCHANGED <<root, stored, avl>>
       ELSE root' = NULL /\ stored' = {} /\ avl' = NULL
    /\ last' = [Call("destroy", NoArg, "not_called", "returned", <<>>, <<>>)
                    EXCEPT !.on = OnTree(h)]
    /\ UNCHANGED crashed
    /\ UNCHANGED adapterVars
    /\ UNCHANGED <<bst, allocated>>

\* a guard that lets a NULL pointer through when a tree was passed
Mut_InvalidArgument(op, h, arg) ==
    /\ ~crashed
    /\ last' = [Call(op, arg, "not_called",
                     IF op = "search" THEN "returned"
                     ELSE IF h = NULL THEN "STATUS_ERR_INVALID_ARGUMENT"
                     ELSE "STATUS_OK",
                     <<>>, <<>>)
                    EXCEPT !.on = OnTree(h)]
    /\ UNCHANGED <<root, crashed, stored, avl>>
    /\ UNCHANGED adapterVars
    /\ UNCHANGED <<bst, allocated>>

\* `if (!avl || !element) return ...`: the call ends before it reads the tree;
\* AVLTree_search returns NULL, the others STATUS_ERR_INVALID_ARGUMENT
InvalidArgument(op, h, arg) ==
    /\ ~crashed
    /\ last' = [Call(op, arg, "not_called",
                     IF op = "search" THEN "returned" ELSE "STATUS_ERR_INVALID_ARGUMENT",
                     <<>>, <<>>)
                    EXCEPT !.on = OnTree(h)]
    /\ UNCHANGED <<root, crashed, stored, avl>>
    /\ UNCHANGED adapterVars
    /\ UNCHANGED <<bst, allocated>>

\* the public entry points as a caller reaches them: with the handle h it
\* holds or NULL, and with a pointer or NULL
InsertCall(h, element, alloc) ==
    IF h = NULL \/ element = NULL THEN InvalidArgument("insert", h, element)
    ELSE AVLTree_insert(element, alloc)

DeleteCall(h, key) ==
    IF h = NULL \/ key = NULL THEN InvalidArgument("delete", h, key)
    ELSE AVLTree_delete(key)

SearchCall(h, key) ==
    IF h = NULL \/ key = NULL THEN InvalidArgument("search", h, key)
    ELSE AVLTree_search(key)

\* callback is NULL or the test's callback
TraverseCall(h, callback, op, order) ==
    IF h = NULL \/ callback = NULL
    THEN InvalidArgument(op, h, IF callback = NULL THEN NULL ELSE NoArg)
    ELSE Traverse(op, order)

TraverseInorderCall(h, callback) ==
    TraverseCall(h, callback, "traverseInorder", "TRAVERSAL_INORDER")
TraversePreorderCall(h, callback) ==
    TraverseCall(h, callback, "traversePreorder", "TRAVERSAL_PREORDER")
TraversePostorderCall(h, callback) ==
    TraverseCall(h, callback, "traversePostorder", "TRAVERSAL_POSTORDER")

\* ------------------------------------------------------------ linked list
MaxItem == 3
MaxStackSize == 3
MaxQueueLen == 3

\* the int elements the adapter tests store
Item(i) == [val |-> i]
Items == {Item(i) : i \in 1..MaxItem}

\* SIZE_MAX / 2 where size_t has 32 bits
SizeMaxHalf == 2147483647

\* a list: the elements of its nodes from the head on, and its two fields
LinkedList(nodes, dataSize, size) == [nodes |-> nodes, dataSize |-> dataSize, size |-> size]

LinkedList_init(dataSize, alloc) ==
    IF dataSize = 0 THEN NULL
    ELSE IF alloc # "ok" THEN NULL
    ELSE LinkedList(<<>>, dataSize, 0)

LinkedList_size(list) == IF list = NULL THEN 0 ELSE list.size

\* what a list function hands back: the list afterwards, the STATUS, and
\* the element copied to the out pointer
ListRet(list, status, out) == [list |-> list, status |-> status, out |-> out]

\* an insert that links the new node after the last one
Mut_LinkedList_insert(list, element, alloc) ==
    IF list = NULL \/ element = NULL THEN ListRet(list, "STATUS_ERR_INVALID_ARGUMENT", <<>>)
    ELSE IF list.size > SizeMaxHalf THEN ListRet(list, "STATUS_ERR_OVERFLOW", <<>>)
    ELSE IF alloc # "ok" THEN ListRet(list, "STATUS_ERR_ALLOC", <<>>)
    ELSE ListRet([list EXCEPT !.nodes = @ \o <<element>>, !.size = @ + 1], "STATUS_OK", <<>>)

\* the new node becomes the head
LinkedList_insert(list, element, alloc) ==
    IF list = NULL \/ element = NULL THEN ListRet(list, "STATUS_ERR_INVALID_ARGUMENT", <<>>)
    ELSE IF list.size > SizeMaxHalf THEN ListRet(list, "STATUS_ERR_OVERFLOW", <<>>)
    ELSE IF alloc # "ok" THEN ListRet(list, "STATUS_ERR_ALLOC", <<>>)
    ELSE ListRet([list EXCEPT !.nodes = <<element>> \o @, !.size = @ + 1], "STATUS_OK", <<>>)

\* the nodes with the index-th one unlinked (1-based)
Unlink(nodes, index) == SubSeq(nodes, 1, index - 1) \o SubSeq(nodes, index + 1, Len(nodes))

\* a delete that always unlinks the head
Mut_LinkedList_delete(list, index) ==
    IF list = NULL THEN ListRet(list, "STATUS_ERR_INVALID_ARGUMENT", <<>>)
    ELSE IF index < 1 \/ index > list.size THEN ListRet(list, "STATUS_ERR_INVALID_ARGUMENT", <<>>)
    ELSE IF list.size = 0 THEN ListRet(list, "STATUS_ERR_UNDERFLOW", <<>>)
    ELSE ListRet([list EXCEPT !.nodes = Unlink(@, 1), !.size = @ - 1], "STATUS_OK", <<>>)

LinkedList_delete(list, index) ==
    IF list = NULL THEN ListRet(list, "STATUS_ERR_INVALID_ARGUMENT", <<>>)
    ELSE IF index < 1 \/ index > list.size THEN ListRet(list, "STATUS_ERR_INVALID_ARGUMENT", <<>>)
    ELSE IF list.size = 0 THEN ListRet(list, "STATUS_ERR_UNDERFLOW", <<>>)
    ELSE ListRet([list EXCEPT !.nodes = Unlink(@, index), !.size = @ - 1], "STATUS_OK", <<>>)

\* elementOut is NULL or the caller's buffer
LinkedList_get(list, index, elementOut) ==
    IF list = NULL \/ elementOut = NULL THEN ListRet(list, "STATUS_ERR_INVALID_ARGUMENT", <<>>)
    ELSE IF index < 1 \/ index > list.size THEN ListRet(list, "STATUS_ERR_INVALID_ARGUMENT", <<>>)
    ELSE ListRet(list, "STATUS_OK", <<list.nodes[index]>>)

\* List_getAt of list.c, which queue.c calls on its LinkedList: the List
\* struct has the same three fields in the same order (head, dataSize, length)
List_getAt(list, index, dataOut) ==
    IF list = NULL THEN ListRet(list, "STATUS_ERR_INVALID_ARGUMENT", <<>>)
    ELSE IF list.nodes = <<>> \/ dataOut = NULL
    THEN ListRet(list, "STATUS_ERR_INVALID_ARGUMENT", <<>>)
    ELSE IF index < 1 \/ index > list.size THEN ListRet(list, "STATUS_ERR_INVALID_ARGUMENT", <<>>)
    ELSE ListRet(list, "STATUS_OK", <<list.nodes[index]>>)

\* ------------------------------------------------ the list, used directly
\* what the caller saw of the last adapter, list or heap call: arg and out hold 0 or 1 element
Seen(op, arg, status, out) == [op |-> op, arg |-> arg, status |-> status, out |-> out]

MaxListLen == 3

\* the indices a caller passes: 0, every position, and one past the end
ListIndices == 0..(MaxListLen + 1)

\* the index argument of a list call
Index(i) == [index |-> i]

ListInsertCall(element, alloc) ==
    /\ LET r == LinkedList_insert(linkedlist, element, alloc)
       IN  /\ linkedlist' = r.list
           /\ seen' = Seen("LinkedList_insert", <<element>>, r.status, <<>>)
    /\ UNCHANGED <<stack, pushed, queue, queued, heap, held>>
    /\ UNCHANGED treeVars

ListDeleteCall(index) ==
    /\ LET r == LinkedList_delete(linkedlist, index)
       IN  /\ linkedlist' = r.list
           /\ seen' = Seen("LinkedList_delete", <<Index(index)>>, r.status, <<>>)
    /\ UNCHANGED <<stack, pushed, queue, queued, heap, held>>
    /\ UNCHANGED treeVars

ListGetCall(index, elementOut) ==
    /\ LET r == LinkedList_get(linkedlist, index, elementOut)
       IN  seen' = Seen("LinkedList_get", <<Index(index)>>, r.status, r.out)
    /\ UNCHANGED <<linkedlist, stack, pushed, queue, queued, heap, held>>
    /\ UNCHANGED treeVars

\* ------------------------------------------------------------- array list
MaxHeapLen == 4
MaxAllocs == 2

DEFAULT_CAPACITY == 8
DEFAULT_EXPANSION_FACTOR == 2

\* the allocations that succeed before one fails: a call of malloc or realloc,
\* or the two or three mallocs a heap helper makes together and tests together,
\* takes one; -1 stands for an allocator that never fails
AllocBudgets == -1..MaxAllocs
AllocFails(budget) == budget = 0
Spend(budget) == IF budget > 0 THEN budget - 1 ELSE budget

\* the example comparator of heap.h: a min-heap of ints
compare_min(a, b) == a.val - b.val

\* data holds the size elements in use; index i of the C array is data[i + 1]
ArrayList(capacity, dataSize, data) ==
    [capacity |-> capacity, dataSize |-> dataSize, size |-> Len(data), data |-> data]

ArrayList_init(capacity, dataSize, alloc) ==
    IF dataSize = 0 THEN NULL
    ELSE IF alloc # "ok" THEN NULL
    ELSE ArrayList(capacity, dataSize, <<>>)

ArrayList_size(arrayList) == IF arrayList = NULL THEN 0 ELSE arrayList.size

\* what an array function hands back: the array afterwards, the STATUS, the
\* element copied out, and the allocation budget left
ArrRet(arr, status, out, budget) ==
    [arr |-> arr, status |-> status, out |-> out, budget |-> budget]

ArrayList_insert(arrayList, element, budget) ==
    IF arrayList = NULL \/ element = NULL
    THEN ArrRet(arrayList, "STATUS_ERR_INVALID_ARGUMENT", <<>>, budget)
    ELSE IF arrayList.size >= arrayList.capacity /\ arrayList.capacity > SizeMaxHalf
    THEN ArrRet(arrayList, "STATUS_ERR_OVERFLOW", <<>>, budget)
    ELSE IF arrayList.size >= arrayList.capacity /\ AllocFails(budget)
    THEN ArrRet(arrayList, "STATUS_ERR_ALLOC", <<>>, budget)
    ELSE LET grows == arrayList.size >= arrayList.capacity
             newCapacity == IF arrayList.capacity = 0 THEN DEFAULT_CAPACITY
                            ELSE arrayList.capacity * DEFAULT_EXPANSION_FACTOR
         IN  ArrRet(ArrayList(IF grows THEN newCapacity ELSE arrayList.capacity,
                              arrayList.dataSize, Append(arrayList.data, element)),
                    "STATUS_OK", <<>>, IF grows THEN Spend(budget) ELSE budget)

\* index is 0-based; a failed shrinking realloc is ignored
ArrayList_delete(arrayList, index, budget) ==
    IF arrayList = NULL THEN ArrRet(arrayList, "STATUS_ERR_INVALID_ARGUMENT", <<>>, budget)
    ELSE IF arrayList.size = 0 THEN ArrRet(arrayList, "STATUS_ERR_UNDERFLOW", <<>>, budget)
    ELSE IF index >= arrayList.size
    THEN ArrRet(arrayList, "STATUS_ERR_INVALID_ARGUMENT", <<>>, budget)
    ELSE LET data == Unlink(arrayList.data, index + 1)
             half == arrayList.capacity \div 2
             newCapacity == IF half < DEFAULT_CAPACITY THEN DEFAULT_CAPACITY ELSE half
             shrinks == /\ arrayList.capacity > DEFAULT_CAPACITY
                        /\ Len(data) <= arrayList.capacity \div 4
                        /\ newCapacity # arrayList.capacity
         IN  ArrRet(ArrayList(IF shrinks /\ ~AllocFails(budget) THEN newCapacity
                              ELSE arrayList.capacity,
                              arrayList.dataSize, data),
                    "STATUS_OK", <<>>, IF shrinks THEN Spend(budget) ELSE budget)

ArrayList_get(arrayList, index, dataOut) ==
    IF arrayList = NULL \/ dataOut = NULL
    THEN ArrRet(arrayList, "STATUS_ERR_INVALID_ARGUMENT", <<>>, -1)
    ELSE IF index >= arrayList.size
    THEN ArrRet(arrayList, "STATUS_ERR_INVALID_ARGUMENT", <<>>, -1)
    ELSE ArrRet(arrayList, "STATUS_OK", <<arrayList.data[index + 1]>>, -1)

ArrayList_set(arrayList, index, element) ==
    IF arrayList = NULL \/ element = NULL
    THEN ArrRet(arrayList, "STATUS_ERR_INVALID_ARGUMENT", <<>>, -1)
    ELSE IF index >= arrayList.size
    THEN ArrRet(arrayList, "STATUS_ERR_INVALID_ARGUMENT", <<>>, -1)
    ELSE ArrRet([arrayList EXCEPT !.data[index + 1] = element], "STATUS_OK", <<>>, -1)

\* ------------------------------------------------------------------- heap
Heap(arr, dataSize, cmp) == [arr |-> arr, dataSize |-> dataSize, cmp |-> cmp]

PARENT(i) == (i - 1) \div 2
LEFT_CHILD(i) == 2 * i + 1
RIGHT_CHILD(i) == 2 * i + 2

\* the initial capacities a caller asks for: none, one that grows at once,
\* and one large enough for the array to shrink
HeapCapacities == {0, 1, 16}

Heap_init(capacity, dataSize, cmp, alloc) ==
    IF dataSize = 0 \/ cmp = NULL THEN NULL
    ELSE IF alloc = "heap_fail" THEN NULL
    ELSE LET arr == ArrayList_init(capacity, dataSize, IF alloc = "ok" THEN "ok" ELSE "fail")
         IN  IF arr = NULL THEN NULL ELSE Heap(arr, dataSize, cmp)

\* Heap_size reads heap->arr without testing heap: a NULL heap is dereferenced
Heap_size(h) ==
    IF h = NULL THEN [segv |-> TRUE, size |-> 0]
    ELSE [segv |-> FALSE, size |-> ArrayList_size(h.arr)]

\* what a heap helper hands back: the heap afterwards, the STATUS, and the
\* allocation budget left
HeapRet(h, status, budget) == [heap |-> h, status |-> status, budget |-> budget]

\* the element at 0-based index i
At(h, i) == h.arr.data[i + 1]

\* i and j are always indices in use when the heap functions call this
_Heap_swap(h, i, j, budget) ==
    IF AllocFails(budget) THEN HeapRet(h, "STATUS_ERR_ALLOC", budget)
    ELSE LET elem1 == ArrayList_get(h.arr, i, Ptr("elem1")).out[1]
             elem2 == ArrayList_get(h.arr, j, Ptr("elem2")).out[1]
             first == ArrayList_set(h.arr, i, elem2).arr
             second == ArrayList_set(first, j, elem1).arr
         IN  HeapRet([h EXCEPT !.arr = second], "STATUS_OK", Spend(budget))

RECURSIVE _Heap_heapify_up(_, _, _)
_Heap_heapify_up(h, index, budget) ==
    IF index = 0 THEN HeapRet(h, "STATUS_OK", budget)
    ELSE IF AllocFails(budget) THEN HeapRet(h, "STATUS_ERR_ALLOC", budget)
    ELSE LET parentIndex == PARENT(index)
             parent == At(h, parentIndex)
             child == At(h, index)
             swapped == _Heap_swap(h, parentIndex, index, Spend(budget))
         IN  IF compare_min(child, parent) < 0
             THEN IF swapped.status = "STATUS_OK"
                  THEN _Heap_heapify_up(swapped.heap, parentIndex, swapped.budget)
                  ELSE swapped
             ELSE HeapRet(h, "STATUS_OK", Spend(budget))

\* a sift-down that compares the right child with the parent, not with the
\* smaller of parent and left child
RECURSIVE Mut_heapify_down(_, _, _)
Mut_heapify_down(h, index, budget) ==
    IF AllocFails(budget) THEN HeapRet(h, "STATUS_ERR_ALLOC", budget)
    ELSE LET left == LEFT_CHILD(index)
             right == RIGHT_CHILD(index)
             size == Heap_size(h).size
             afterLeft == IF left < size /\ compare_min(At(h, left), At(h, index)) < 0
                          THEN left ELSE index
             target == IF right < size /\ compare_min(At(h, right), At(h, index)) < 0
                       THEN right ELSE afterLeft
             swapped == _Heap_swap(h, index, target, Spend(budget))
         IN  IF target # index
             THEN IF swapped.status = "STATUS_OK"
                  THEN Mut_heapify_down(swapped.heap, target, swapped.budget)
                  ELSE swapped
             ELSE HeapRet(h, "STATUS_OK", Spend(budget))

RECURSIVE _Heap_heapify_down(_, _, _)
_Heap_heapify_down(h, index, budget) ==
    IF AllocFails(budget) THEN HeapRet(h, "STATUS_ERR_ALLOC", budget)
    ELSE LET left == LEFT_CHILD(index)
             right == RIGHT_CHILD(index)
             size == Heap_size(h).size
             afterLeft == IF left < size /\ compare_min(At(h, left), At(h, index)) < 0
                          THEN left ELSE index
             target == IF right < size /\ compare_min(At(h, right), At(h, afterLeft)) < 0
                       THEN right ELSE afterLeft
             swapped == _Heap_swap(h, index, target, Spend(budget))
         IN  IF target # index
             THEN IF swapped.status = "STATUS_OK"
                  THEN _Heap_heapify_down(swapped.heap, target, swapped.budget)
                  ELSE swapped
             ELSE HeapRet(h, "STATUS_OK", Spend(budget))

\* the value Heap_size returned, as the caller saw it
SizeOut(n) == [size |-> n]

\* the calls on the heap the caller holds; a call that dereferences NULL
\* ends the process
Heap_push(element, budget) ==
    /\ ~crashed
    /\ LET ins == ArrayList_insert(heap.arr, element, budget)
           r == IF heap = NULL \/ element = NULL
                THEN HeapRet(heap, "STATUS_ERR_INVALID_ARGUMENT", budget)
                ELSE IF ins.status # "STATUS_OK"
                THEN HeapRet(heap, ins.status, ins.budget)
                ELSE LET grown == [heap EXCEPT !.arr = ins.arr]
                     IN  _Heap_heapify_up(grown, Heap_size(grown).size - 1, ins.budget)
       IN  /\ heap' = r.heap
           /\ held' = IF r.status = "STATUS_OK" THEN held + 1 ELSE held
           /\ seen' = Seen("Heap_push", <<element>>, r.status, <<>>)
    /\ UNCHANGED <<linkedlist, stack, pushed, queue, queued>>
    /\ UNCHANGED treeVars

\* elementOut is written before the root is removed
Heap_pop(elementOut, budget) ==
    /\ ~crashed
    /\ LET size == Heap_size(heap).size
           got == ArrayList_get(heap.arr, 0, elementOut)
           swapped == _Heap_swap(heap, 0, size - 1, budget)
           cut == ArrayList_delete(swapped.heap.arr, size - 1, swapped.budget)
           only == ArrayList_delete(heap.arr, 0, budget)
           r == IF heap = NULL \/ elementOut = NULL
                THEN HeapRet(heap, "STATUS_ERR_INVALID_ARGUMENT", budget)
                ELSE IF size = 0 THEN HeapRet(heap, "STATUS_ERR_UNDERFLOW", budget)
                ELSE IF got.status # "STATUS_OK" THEN HeapRet(heap, got.status, budget)
                ELSE IF size = 1
                THEN HeapRet([heap EXCEPT !.arr = only.arr], only.status, only.budget)
                ELSE IF swapped.status # "STATUS_OK" THEN swapped
                ELSE IF cut.status # "STATUS_OK"
                THEN HeapRet(swapped.heap, cut.status, cut.budget)
                ELSE _Heap_heapify_down([swapped.heap EXCEPT !.arr = cut.arr], 0, cut.budget)
           out == IF heap = NULL \/ elementOut = NULL \/ size = 0 THEN <<>> ELSE got.out
       IN  /\ heap' = r.heap
           /\ held' = IF r.status = "STATUS_OK" THEN held - 1 ELSE held
           /\ seen' = Seen("Heap_pop", <<>>, r.status, out)
    /\ UNCHANGED <<linkedlist, stack, pushed, queue, queued>>
    /\ UNCHANGED treeVars

Heap_peek(elementOut) ==
    /\ ~crashed
    /\ LET got == ArrayList_get(heap.arr, 0, elementOut)
           r == IF heap = NULL \/ elementOut = NULL
                THEN ArrRet(NULL, "STATUS_ERR_INVALID_ARGUMENT", <<>>, -1)
                ELSE IF Heap_size(heap).size = 0
                THEN ArrRet(NULL, "STATUS_ERR_EMPTY", <<>>, -1)
                ELSE got
       IN  seen' = Seen("Heap_peek", <<>>, r.status, r.out)
    /\ UNCHANGED <<linkedlist, heap, held, stack, pushed, queue, queued>>
    /\ UNCHANGED treeVars

\* h is the heap the caller holds, or NULL
HeapSizeCall(h) ==
    /\ ~crashed
    /\ crashed' = Heap_size(h).segv
    /\ seen' = IF Heap_size(h).segv
               THEN Seen("Heap_size", <<h>>, "SIGSEGV", <<>>)
               ELSE Seen("Heap_size", <<h>>, "returned", <<SizeOut(Heap_size(h).size)>>)
    /\ UNCHANGED <<linkedlist, heap, held, stack, pushed, queue, queued>>
    /\ UNCHANGED <<root, last, stored, avl, script, bst, allocated>>

\* -------------------------------------------------------- stack and queue
StackAllocOutcomes == {"ok", "stack_fail", "list_fail"}

Stack(list, stackSize) == [list |-> list, stackSize |-> stackSize]

Stack_init(dataSize, stackSize, alloc) ==
    IF alloc = "stack_fail" THEN NULL
    ELSE LET list == LinkedList_init(dataSize, IF alloc = "ok" THEN "ok" ELSE "fail")
         IN  IF list = NULL THEN NULL ELSE Stack(list, stackSize)

Stack_isEmpty(s) == IF s = NULL THEN TRUE ELSE LinkedList_size(s.list) = 0

\* a capacity test that is off by one
Mut_Stack_isFull(s) == IF s = NULL THEN FALSE ELSE LinkedList_size(s.list) = s.stackSize + 1

Stack_isFull(s) == IF s = NULL THEN FALSE ELSE LinkedList_size(s.list) = s.stackSize

Stack_push(element, alloc) ==
    /\ LET r == IF stack = NULL \/ element = NULL
                THEN ListRet(NULL, "STATUS_ERR_INVALID_ARGUMENT", <<>>)
                ELSE IF Stack_isFull(stack)
                THEN ListRet(stack.list, "STATUS_ERR_OVERFLOW", <<>>)
                ELSE LinkedList_insert(stack.list, element, alloc)
       IN  /\ stack' = IF stack = NULL THEN stack ELSE [stack EXCEPT !.list = r.list]
           /\ pushed' = IF r.status = "STATUS_OK" THEN Append(pushed, element) ELSE pushed
           /\ seen' = Seen("Stack_push", <<element>>, r.status, <<>>)
    /\ UNCHANGED <<queue, queued>>
    /\ UNCHANGED treeVars
    /\ UNCHANGED storeVars

Stack_pop ==
    /\ LET r == IF stack = NULL
                THEN ListRet(NULL, "STATUS_ERR_INVALID_ARGUMENT", <<>>)
                ELSE IF Stack_isEmpty(stack)
                THEN ListRet(stack.list, "STATUS_ERR_UNDERFLOW", <<>>)
                ELSE LinkedList_delete(stack.list, 1)
       IN  /\ stack' = IF stack = NULL THEN stack ELSE [stack EXCEPT !.list = r.list]
           /\ pushed' = IF r.status = "STATUS_OK"
                        THEN SubSeq(pushed, 1, Len(pushed) - 1)
                        ELSE pushed
           /\ seen' = Seen("Stack_pop", <<>>, r.status, <<>>)
    /\ UNCHANGED <<queue, queued>>
    /\ UNCHANGED treeVars
    /\ UNCHANGED storeVars

Stack_peek(elementOut) ==
    /\ LET r == IF stack = NULL \/ elementOut = NULL
                THEN ListRet(NULL, "STATUS_ERR_INVALID_ARGUMENT", <<>>)
                ELSE IF Stack_isEmpty(stack)
                THEN ListRet(stack.list, "STATUS_ERR_EMPTY", <<>>)
                ELSE LinkedList_get(stack.list, 1, elementOut)
       IN  seen' = Seen("Stack_peek", <<>>, r.status, r.out)
    /\ UNCHANGED <<stack, pushed, queue, queued>>
    /\ UNCHANGED treeVars
    /\ UNCHANGED storeVars

QueueAllocOutcomes == {"ok", "queue_fail", "list_fail"}

Queue(list) == [list |-> list]

Queue_init(dataSize, alloc) ==
    IF alloc = "queue_fail" THEN NULL
    ELSE LET list == LinkedList_init(dataSize, IF alloc = "ok" THEN "ok" ELSE "fail")
         IN  IF list = NULL THEN NULL ELSE Queue(list)

\* an emptiness test that never finds a queue empty
Mut_Queue_isEmpty(q) == IF q = NULL THEN TRUE ELSE FALSE

Queue_isEmpty(q) == IF q = NULL THEN TRUE ELSE LinkedList_size(q.list) = 0

Queue_enqueue(element, alloc) ==
    /\ LET r == IF queue = NULL \/ element = NULL
                THEN ListRet(NULL, "STATUS_ERR_INVALID_ARGUMENT", <<>>)
                ELSE LinkedList_insert(queue.list, element, alloc)
       IN  /\ queue' = IF queue = NULL THEN queue ELSE [queue EXCEPT !.list = r.list]
           /\ queued' = IF r.status = "STATUS_OK" THEN Append(queued, element) ELSE queued
           /\ seen' = Seen("Queue_enqueue", <<element>>, r.status, <<>>)
    /\ UNCHANGED <<stack, pushed>>
    /\ UNCHANGED treeVars
    /\ UNCHANGED storeVars

Queue_dequeue ==
    /\ LET r == IF queue = NULL
                THEN ListRet(NULL, "STATUS_ERR_INVALID_ARGUMENT", <<>>)
                ELSE IF Queue_isEmpty(queue)
                THEN ListRet(queue.list, "STATUS_ERR_UNDERFLOW", <<>>)
                ELSE LinkedList_delete(queue.list, LinkedList_size(queue.list))
       IN  /\ queue' = IF queue = NULL THEN queue ELSE [queue EXCEPT !.list = r.list]
           /\ queued' = IF r.status = "STATUS_OK" THEN Tail(queued) ELSE queued
           /\ seen' = Seen("Queue_dequeue", <<>>, r.status, <<>>)
    /\ UNCHANGED <<stack, pushed>>
    /\ UNCHANGED treeVars
    /\ UNCHANGED storeVars

Queue_peek(elementOut) ==
    /\ LET r == IF queue = NULL \/ elementOut = NULL
                THEN ListRet(NULL, "STATUS_ERR_INVALID_ARGUMENT", <<>>)
                ELSE IF Queue_isEmpty(queue)
                THEN ListRet(queue.list, "STATUS_ERR_EMPTY", <<>>)
                ELSE List_getAt(queue.list, LinkedList_size(queue.list), elementOut)
       IN  seen' = Seen("Queue_peek", <<>>, r.status, r.out)
    /\ UNCHANGED <<stack, pushed, queue, queued>>
    /\ UNCHANGED treeVars
    /\ UNCHANGED storeVars

\* --------------------------------------------------------- node addresses
\* the calls below follow the address of every node: a node carries the
\* address malloc returned for it in the field addr, and the block of its
\* element copy is named after it
MaxNodeKey == 4
NodeKeys == 1..MaxNodeKey

\* the addresses malloc can return; one more than the tree can hold nodes
Addresses == 1..(MaxNodeKey + 1)

Block(kind, a) == [block |-> kind, at |-> a]

\* newNode = malloc(sizeof(AVLNode)): t holds one node that has no address yet
RECURSIVE Place(_, _)
Place(t, a) ==
    IF t = NULL THEN NULL
    ELSE IF "addr" \notin DOMAIN t
    THEN [data |-> t.data, left |-> t.left, right |-> t.right, height |-> t.height,
          addr |-> a]
    ELSE [t EXCEPT !.left = Place(t.left, a), !.right = Place(t.right, a)]

\* free(root->data); free(root);
FreeNode(n) == <<Block("data", n.addr), Block("node", n.addr)>>

\* a removal that frees the node holding the key, whatever children it has
RECURSIVE Mut_Freed(_, _)
Mut_Freed(n, key) ==
    IF n = NULL THEN <<>>
    ELSE IF compare_int(key, n.data) < 0 THEN Mut_Freed(n.left, key)
    ELSE IF compare_int(key, n.data) > 0 THEN Mut_Freed(n.right, key)
    ELSE FreeNode(n)

\* the blocks _AVLTree_deleteNode frees, in the order it frees them
RECURSIVE Freed(_, _)
Freed(n, key) ==
    IF n = NULL THEN <<>>
    ELSE IF compare_int(key, n.data) < 0 THEN Freed(n.left, key)
    ELSE IF compare_int(key, n.data) > 0 THEN Freed(n.right, key)
    ELSE IF n.left = NULL \/ n.right = NULL THEN FreeNode(n)
    ELSE IF _AVLTree_getMin(n.right) = NULL THEN <<>>
    ELSE Freed(n.right, _AVLTree_getMin(n.right).data)

\* the blocks _AVLTree_destroyNode frees, in the order it frees them
RECURSIVE _AVLTree_destroyNode(_)
_AVLTree_destroyNode(n) ==
    IF n = NULL THEN <<>>
    ELSE _AVLTree_destroyNode(n.left) \o _AVLTree_destroyNode(n.right) \o FreeNode(n)

\* the calls below record in `last` the blocks they freed, and a delete the
\* address of the node that held the key (0 when no node did)
\* AVLTree_insert where malloc, if it is called and succeeds, returns address a:
\* the lowest address not in use, so a block freed earlier is handed out again
\* (the code only compares addresses for equality, never their order)
TrackedInsert(element, alloc, a) ==
    /\ ~crashed
    /\ avl # NULL
    /\ LET unused == {b \in Addresses : /\ Block("node", b) \notin allocated
                                        /\ Block("data", b) \notin allocated}
       IN  /\ a \in unused
           /\ \A b \in unused : a <= b
    /\ LET r == _AVLTree_insertNode(root, element, alloc, InsertStatus0)
           ret == IF r.segv THEN "SIGSEGV" ELSE InsertReturn(r.status)
           malloc == IF r.status.isDuplicate THEN "not_called"
                     ELSE IF alloc = "ok" THEN "ok" ELSE "failed"
           freed == IF r.status.isAllocFailed /\ alloc = "data_fail"
                    THEN <<Block("node", a)>> ELSE <<>>
       IN  /\ root' = IF r.segv THEN root ELSE Place(r.node, a)
           /\ crashed' = r.segv
           /\ last' = [freed |-> freed] @@ Call("insert", element, malloc, ret, r.rot, <<>>)
           /\ stored' = IF ret = "STATUS_OK" THEN stored \cup {element} ELSE stored
           /\ allocated' = IF ret = "STATUS_OK"
                           THEN allocated \cup {Block("node", a), Block("data", a)}
                           ELSE allocated
    /\ UNCHANGED <<avl, bst>>
    /\ UNCHANGED adapterVars

TrackedDelete(key) ==
    /\ ~crashed
    /\ avl # NULL
    /\ LET r == _AVLTree_deleteNode(root, key, DeleteStatus0)
           ret == IF r.segv THEN "SIGSEGV" ELSE DeleteReturn(r.status)
           freed == Freed(root, key)
           holder == _AVLTree_searchNode(root, key)
           found == IF holder = NULL THEN 0 ELSE holder.addr
       IN  /\ root' = IF r.segv THEN root ELSE r.node
           /\ crashed' = r.segv
           /\ last' = [freed |-> freed, found |-> found]
                        @@ Call("delete", key, "not_called", ret, r.rot, <<>>)
           /\ stored' = IF ret = "STATUS_OK"
                        THEN {e \in stored : compare_int(e, key) # 0}
                        ELSE stored
           /\ allocated' = IF r.segv THEN allocated ELSE allocated \ Range(freed)
    /\ UNCHANGED <<avl, bst>>
    /\ UNCHANGED adapterVars

\* AVLTree_destroy on the tree; the caller drops the handle
TrackedDestroy ==
    /\ ~crashed
    /\ avl # NULL
    /\ LET freed == _AVLTree_destroyNode(root)
       IN  /\ last' = [freed |-> freed]
                        @@ Call("destroy", NoArg, "not_called", "returned", <<>>, <<>>)
           /\ allocated' = allocated \ Range(freed)
    /\ root' = NULL
    /\ stored' = {}
    /\ avl' = NULL
    /\ UNCHANGED <<crashed, bst>>
    /\ UNCHANGED adapterVars

\* ---------------------------------------------------- binary search tree
\* bst.c: the module behind BST_init, BST_insert and BST_delete
BST(r, dataSize, cmp) == [root |-> r, dataSize |-> dataSize, cmp |-> cmp]

BST_init(datasize, cmp, alloc) ==
    IF cmp = NULL \/ datasize = 0 THEN NULL
    ELSE IF alloc # "ok" THEN NULL
    ELSE BST(NULL, datasize, cmp)

_BST_getHeight(node) == IF node = NULL THEN -1 ELSE node.height

_BST_updateHeight(n) ==
    IF n = NULL THEN n
    ELSE LET leftHeight == _BST_getHeight(n.left)
             rightHeight == _BST_getHeight(n.right)
         IN  [n EXCEPT !.height =
                1 + (IF leftHeight > rightHeight THEN leftHeight ELSE rightHeight)]

_BST_getBalanceFactor(n) ==
    IF n = NULL THEN 0
    ELSE _BST_getHeight(n.left) - _BST_getHeight(n.right)

_BST_getNewNode(data, alloc) ==
    IF alloc = "ok"
    THEN [data |-> data, left |-> NULL, right |-> NULL, height |-> 0]
    ELSE NULL

_BST_rightRotate(n) ==
    IF n = NULL THEN SEGV
    ELSE IF n.left = NULL THEN SEGV
    ELSE LET x == n.left
             y == x.right
             lowered == _BST_updateHeight([n EXCEPT !.left = y])
         IN  _BST_updateHeight([x EXCEPT !.right = lowered])

leftRotate(n) ==
    IF n = NULL THEN SEGV
    ELSE IF n.right = NULL THEN SEGV
    ELSE LET x == n.right
             y == x.left
             lowered == _BST_updateHeight([n EXCEPT !.right = y])
         IN  _BST_updateHeight([x EXCEPT !.left = lowered])

\* one rotation call of the BST module, asked for by ancestor `by`
BSTRotate(fn, n, by, r) ==
    LET res == IF fn = "rightRotate" THEN _BST_rightRotate(n) ELSE leftRotate(n)
        rot == Append(r.rot, RotCall(fn, n, by))
    IN  IF res = SEGV THEN Died(r.status, rot) ELSE Ret(res, r.status, rot)

RECURSIVE _BST_insertNode(_, _, _, _)
_BST_insertNode(n, data, alloc, status) ==
    IF n = NULL
    THEN LET new == _BST_getNewNode(data, alloc)
         IN  IF new # NULL
             THEN Ret(new, [status EXCEPT !.isInserted = TRUE], <<>>)
             ELSE Ret(new, [status EXCEPT !.isAllocFailed = TRUE], <<>>)
    ELSE IF compare_int(data, n.data) = 0
    THEN Ret(n, [status EXCEPT !.isDuplicate = TRUE], <<>>)
    ELSE
    LET goesLeft == compare_int(data, n.data) < 0
        r == _BST_insertNode(IF goesLeft THEN n.left ELSE n.right, data, alloc, status)
        t == _BST_updateHeight(IF goesLeft THEN [n EXCEPT !.left = r.node]
                                           ELSE [n EXCEPT !.right = r.node])
        balanceFactor == _BST_getBalanceFactor(t)
    IN  IF r.segv THEN r
        ELSE IF balanceFactor > 1 /\ t.left # NULL /\ compare_int(data, t.left.data) < 0
        THEN BSTRotate("rightRotate", t, t, r)
        ELSE IF balanceFactor < -1 /\ t.right # NULL /\ compare_int(data, t.right.data) > 0
        THEN BSTRotate("leftRotate", t, t, r)
        ELSE IF balanceFactor > 1 /\ t.left # NULL /\ compare_int(data, t.left.data) > 0
        THEN LET first == BSTRotate("leftRotate", t.left, t, r)
             IN  IF first.segv THEN first
                 ELSE BSTRotate("rightRotate", [t EXCEPT !.left = first.node], t, first)
        ELSE IF balanceFactor < -1 /\ t.right # NULL /\ compare_int(data, t.right.data) < 0
        THEN LET first == BSTRotate("rightRotate", t.right, t, r)
             IN  IF first.segv THEN first
                 ELSE BSTRotate("leftRotate", [t EXCEPT !.right = first.node], t, first)
        ELSE Ret(t, r.status, r.rot)

RECURSIVE _BST_getMin(_)
_BST_getMin(n) ==
    IF n = NULL THEN NULL
    ELSE IF n.left = NULL THEN n
    ELSE _BST_getMin(n.left)

RECURSIVE _BST_deleteNode(_, _, _)
_BST_deleteNode(n, key, status) ==
    IF n = NULL
    THEN Ret(NULL, [status EXCEPT !.isKeyNotFound = TRUE], <<>>)
    ELSE
    LET c == compare_int(key, n.data)
        twoChildren == c = 0 /\ n.left # NULL /\ n.right # NULL
        inorderSuccessor == _BST_getMin(n.right)
        \* the recursive call, where the code makes one
        r == IF c < 0 THEN _BST_deleteNode(n.left, key, status)
             ELSE IF c > 0 THEN _BST_deleteNode(n.right, key, status)
             ELSE IF twoChildren
             THEN _BST_deleteNode(n.right, inorderSuccessor.data, status)
             ELSE Ret(NULL, status, <<>>)
        isDeleted == [r.status EXCEPT !.isDeleted = TRUE]
        \* what root points to once the key has been dealt with
        s == IF c < 0 THEN Ret([n EXCEPT !.left = r.node], r.status, r.rot)
             ELSE IF c > 0 THEN Ret([n EXCEPT !.right = r.node], r.status, r.rot)
             ELSE IF n.left = NULL /\ n.right = NULL THEN Ret(NULL, isDeleted, <<>>)
             ELSE IF n.left = NULL THEN Ret(n.right, isDeleted, <<>>)
             ELSE IF n.right = NULL THEN Ret(n.left, isDeleted, <<>>)
             ELSE Ret([n EXCEPT !.data = inorderSuccessor.data, !.right = r.node],
                      isDeleted, r.rot)
        t == _BST_updateHeight(s.node)
        balanceFactor == _BST_getBalanceFactor(t)
    IN  IF twoChildren /\ inorderSuccessor = NULL THEN Ret(n, status, <<>>)
        ELSE IF r.segv THEN r
        ELSE IF s.node = NULL THEN s
        ELSE IF balanceFactor > 1 /\ _BST_getBalanceFactor(t.left) >= 0
        THEN BSTRotate("rightRotate", t, t, s)
        ELSE IF balanceFactor > 1 /\ _BST_getBalanceFactor(t.left) < 0
        THEN LET first == BSTRotate("leftRotate", t.left, t, s)
             IN  IF first.segv THEN first
                 ELSE BSTRotate("rightRotate", [t EXCEPT !.left = first.node], t, first)
        ELSE IF balanceFactor < -1 /\ _BST_getBalanceFactor(t.right) <= 0
        THEN BSTRotate("leftRotate", t, t, s)
        ELSE IF balanceFactor < -1 /\ _BST_getBalanceFactor(t.right) > 0
        THEN \* as in the AVL module, root->left is rotated and stored
             LET first == BSTRotate("rightRotate", t.left, t, s)
             IN  IF first.segv THEN first
                 ELSE BSTRotate("leftRotate", [t EXCEPT !.left = first.node], t, first)
        ELSE Ret(t, s.status, s.rot)

\* the calls below are made with a BST and a non-NULL pointer
BST_insert(data, alloc) ==
    /\ ~crashed
    /\ bst # NULL
    /\ LET r == _BST_insertNode(bst.root, data, alloc, InsertStatus0)
           ret == IF r.segv THEN "SIGSEGV"
                  ELSE IF r.status.isInserted THEN "STATUS_OK"
                  ELSE IF r.status.isAllocFailed THEN "STATUS_ERR_ALLOC"
                  ELSE IF r.status.isDuplicate THEN "STATUS_ERR_DUPLICATE_KEY"
                  ELSE "STATUS_ERR_UNKNOWN"
           malloc == IF r.status.isDuplicate THEN "not_called"
                     ELSE IF alloc = "ok" THEN "ok" ELSE "failed"
       IN  /\ bst' = IF r.segv THEN bst ELSE [bst EXCEPT !.root = r.node]
           /\ crashed' = r.segv
           /\ last' = [Call("insert", data, malloc, ret, r.rot, <<>>) EXCEPT !.on = "bst"]
    /\ UNCHANGED <<root, stored, avl, script, allocated>>
    /\ UNCHANGED adapterVars

BST_delete(key) ==
    /\ ~crashed
    /\ bst # NULL
    /\ LET r == _BST_deleteNode(bst.root, key, DeleteStatus0)
           ret == IF r.segv THEN "SIGSEGV"
                  ELSE IF r.status.isDeleted THEN "STATUS_OK"
                  ELSE IF r.status.isKeyNotFound THEN "STATUS_ERR_KEY_NOT_FOUND"
                  ELSE "STATUS_ERR_UNKNOWN"
       IN  /\ bst' = IF r.segv THEN bst ELSE [bst EXCEPT !.root = r.node]
           /\ crashed' = r.segv
           /\ last' = [Call("delete", key, "not_called", ret, r.rot, <<>>) EXCEPT !.on = "bst"]
    /\ UNCHANGED <<root, stored, avl, script, allocated>>
    /\ UNCHANGED adapterVars

\* ---------------------------------------------------------- specifications
\* no stack and no queue exist while the tree is exercised, and no tree
\* while an adapter is
NoStores ==
    /\ linkedlist = NULL
    /\ heap = NULL
    /\ held = 0

NoAdapters ==
    /\ stack = NULL
    /\ pushed = <<>>
    /\ queue = NULL
    /\ queued = <<>>
    /\ seen = Seen("none", <<>>, "returned", <<>>)
    /\ NoStores

NoTree ==
    /\ root = NULL
    /\ bst = NULL
    /\ allocated = {}
    /\ crashed = FALSE
    /\ last = [Call("none", NoArg, "not_called", "returned", <<>>, <<>>) EXCEPT !.on = "NULL"]
    /\ stored = {}
    /\ avl = NULL
    /\ script = <<>>

\* AVLTree_init: an empty tree
Init ==
    /\ root = NULL
    /\ crashed = FALSE
    /\ last = Call("init", NoArg, "not_called", "returned", <<>>, <<>>)
    /\ stored = {}
    /\ avl = TestTree
    /\ script = <<>>
    /\ bst = NULL
    /\ allocated = {}
    /\ NoAdapters

Next ==
    \/ \E e \in Elements, alloc \in AllocOutcomes :
         AVLTree_insert(e, alloc) /\ UNCHANGED script
    \/ \E k \in Keys : AVLTree_delete(Probe(k)) /\ UNCHANGED script
    \/ \E k \in Keys : AVLTree_search(Probe(k)) /\ UNCHANGED script
    \/ AVLTree_traverseInorder /\ UNCHANGED script
    \/ AVLTree_traversePreorder /\ UNCHANGED script
    \/ AVLTree_traversePostorder /\ UNCHANGED script

Spec == Init /\ [][Next]_vars

\* the tree a caller holds after inserting DeepSeed into an empty tree
RECURSIVE InsertAll(_, _, _)
InsertAll(t, seq, i) ==
    IF i > Len(seq) THEN t
    ELSE InsertAll(_AVLTree_insertNode(t, Probe(seq[i]), "ok", InsertStatus0).node, seq, i + 1)

InitDeep ==
    /\ root = InsertAll(NULL, DeepSeed, 1)
    /\ crashed = FALSE
    /\ last = Call("insert", Probe(DeepSeed[Len(DeepSeed)]), "ok", "STATUS_OK", <<>>, <<>>)
    /\ stored = {Probe(DeepSeed[i]) : i \in 1..Len(DeepSeed)}
    /\ avl = TestTree
    /\ script = <<>>
    /\ bst = NULL
    /\ allocated = {}
    /\ NoAdapters

NextDeep ==
    \/ \E k \in DeepKeys, alloc \in AllocOutcomes :
         AVLTree_insert(Probe(k), alloc) /\ UNCHANGED script
    \/ \E k \in DeepKeys : AVLTree_delete(Probe(k)) /\ UNCHANGED script
    \/ \E k \in DeepKeys : AVLTree_search(Probe(k)) /\ UNCHANGED script
    \/ AVLTree_traverseInorder /\ UNCHANGED script
    \/ AVLTree_traversePreorder /\ UNCHANGED script
    \/ AVLTree_traversePostorder /\ UNCHANGED script

SpecDeep == InitDeep /\ [][NextDeep]_vars

\* a round trip: distinct keys go in (allocation succeeding), then stored keys
\* come out, in any order; once a key has been deleted nothing is inserted
NextRoundTrip ==
    \/ \E e \in Elements :
         /\ last.op \in {"init", "insert"}
         /\ e.key \notin {x.key : x \in stored}
         /\ AVLTree_insert(e, "ok")
         /\ UNCHANGED script
    \/ \E e \in stored : AVLTree_delete(Probe(e.key)) /\ UNCHANGED script

SpecRoundTrip == Init /\ [][NextRoundTrip]_vars

\* a caller that starts without a tree and may pass NULL for any pointer
MaxArgKey == 3
ArgElements == {Probe(k) : k \in 1..MaxArgKey}

InitArgs == NoTree /\ NoAdapters

NextArgs ==
    \/ \E d \in DataSizes, c \in Comparators, alloc \in InitAllocOutcomes :
         AVLTree_init(d, c, alloc) /\ UNCHANGED script
    \/ \E h \in {NULL, avl} : AVLTree_destroy(h) /\ UNCHANGED script
    \/ \E h \in {NULL, avl}, e \in ArgElements \cup {NULL}, alloc \in AllocOutcomes :
         InsertCall(h, e, alloc) /\ UNCHANGED script
    \/ \E h \in {NULL, avl}, k \in ArgElements \cup {NULL} :
         DeleteCall(h, k) /\ UNCHANGED script
    \/ \E h \in {NULL, avl}, k \in ArgElements \cup {NULL} :
         SearchCall(h, k) /\ UNCHANGED script
    \/ \E h \in {NULL, avl}, cb \in {NULL, Ptr("add_to_list_callback")} :
         TraverseInorderCall(h, cb) /\ UNCHANGED script
    \/ \E h \in {NULL, avl}, cb \in {NULL, Ptr("add_to_list_callback")} :
         TraversePreorderCall(h, cb) /\ UNCHANGED script
    \/ \E h \in {NULL, avl}, cb \in {NULL, Ptr("add_to_list_callback")} :
         TraversePostorderCall(h, cb) /\ UNCHANGED script

SpecArgs == InitArgs /\ [][NextArgs]_vars

\* test_avl_rotations_and_operations: its inserts and deletes in order; its
\* searches and traversals may come between any two of them
ScenarioInserts == <<10, 20, 30, 5, 3, 28, 25, 8, 6>>
ScenarioDeletes == <<3, 30, 10>>
ScenarioScript ==
    [i \in 1..Len(ScenarioInserts) |-> [op |-> "insert", key |-> ScenarioInserts[i]]]
    \o [i \in 1..Len(ScenarioDeletes) |-> [op |-> "delete", key |-> ScenarioDeletes[i]]]
ScenarioProbes == Range(ScenarioInserts) \cup {999}

InitScenario ==
    /\ root = NULL
    /\ crashed = FALSE
    /\ last = Call("init", NoArg, "not_called", "returned", <<>>, <<>>)
    /\ stored = {}
    /\ avl = TestTree
    /\ script = ScenarioScript
    /\ bst = NULL
    /\ allocated = {}
    /\ NoAdapters

ScenarioInsert ==
    /\ script # <<>>
    /\ Head(script).op = "insert"
    /\ AVLTree_insert(Probe(Head(script).key), "ok")
    /\ script' = Tail(script)

ScenarioDelete ==
    /\ script # <<>>
    /\ Head(script).op = "delete"
    /\ AVLTree_delete(Probe(Head(script).key))
    /\ script' = Tail(script)

NextScenario ==
    \/ ScenarioInsert
    \/ ScenarioDelete
    \/ \E k \in ScenarioProbes : AVLTree_search(Probe(k)) /\ UNCHANGED script
    \/ AVLTree_traverseInorder /\ UNCHANGED script
    \/ AVLTree_traversePreorder /\ UNCHANGED script
    \/ AVLTree_traversePostorder /\ UNCHANGED script

SpecScenario == InitScenario /\ [][NextScenario]_vars

\* a stack of any capacity up to MaxStackSize, as Stack_init(sizeof(int), n) left it
InitStack ==
    /\ stack \in {Stack_init(4, n, "ok") : n \in 0..MaxStackSize}
    /\ pushed = <<>>
    /\ queue = NULL
    /\ queued = <<>>
    /\ seen = Seen("Stack_init", <<>>, "returned", <<>>)
    /\ NoStores
    /\ NoTree

NextStack ==
    \/ \E e \in Items, alloc \in AllocOutcomes : Stack_push(e, alloc)
    \/ Stack_pop
    \/ Stack_peek(Ptr("peek_val"))

SpecStack == InitStack /\ [][NextStack]_vars

\* a queue as Queue_init(sizeof(int)) left it; the caller stops enqueueing at
\* MaxQueueLen elements
InitQueue ==
    /\ stack = NULL
    /\ pushed = <<>>
    /\ queue = Queue_init(4, "ok")
    /\ queued = <<>>
    /\ seen = Seen("Queue_init", <<>>, "returned", <<>>)
    /\ NoStores
    /\ NoTree

NextQueue ==
    \/ \E e \in Items, alloc \in AllocOutcomes :
         /\ LinkedList_size(queue.list) < MaxQueueLen
         /\ Queue_enqueue(e, alloc)
    \/ Queue_dequeue
    \/ Queue_peek(Ptr("peek_val"))

SpecQueue == InitQueue /\ [][NextQueue]_vars

\* a caller that holds a stack and a queue, both as their init functions left them
InitAdapters ==
    /\ stack \in {Stack_init(4, n, "ok") : n \in 0..MaxStackSize}
    /\ pushed = <<>>
    /\ queue = Queue_init(4, "ok")
    /\ queued = <<>>
    /\ seen = Seen("Queue_init", <<>>, "returned", <<>>)
    /\ NoStores
    /\ NoTree

NextAdapters ==
    \/ NextStack
    \/ NextQueue

SpecAdapters == InitAdapters /\ [][NextAdapters]_vars

\* a list as LinkedList_init(sizeof(int)) left it; the caller stops inserting
\* at MaxListLen elements
InitList ==
    /\ linkedlist = LinkedList_init(4, "ok")
    /\ heap = NULL
    /\ held = 0
    /\ stack = NULL
    /\ pushed = <<>>
    /\ queue = NULL
    /\ queued = <<>>
    /\ seen = Seen("LinkedList_init", <<>>, "returned", <<>>)
    /\ NoTree

NextList ==
    \/ \E e \in Items, alloc \in {"ok", "fail"} :
         /\ LinkedList_size(linkedlist) < MaxListLen
         /\ ListInsertCall(e, alloc)
    \/ \E i \in ListIndices : ListDeleteCall(i)
    \/ \E i \in ListIndices : ListGetCall(i, Ptr("val"))

SpecList == InitList /\ [][NextList]_vars

\* a heap as Heap_init(capacity, sizeof(int), cmp) left it; the caller stops
\* pushing at MaxHeapLen elements, or once more than MaxHeapLen pushes have
\* returned STATUS_OK without a pop, and stops popping once more pops than
\* pushes have returned STATUS_OK
InitHeap ==
    /\ heap \in {Heap_init(c, 4, Ptr("compare_min"), "ok") : c \in HeapCapacities}
    /\ held = 0
    /\ linkedlist = NULL
    /\ stack = NULL
    /\ pushed = <<>>
    /\ queue = NULL
    /\ queued = <<>>
    /\ seen = Seen("Heap_init", <<>>, "returned", <<>>)
    /\ NoTree

NextHeap ==
    \/ \E e \in Items, budget \in AllocBudgets :
         /\ Heap_size(heap).size < MaxHeapLen
         /\ held <= MaxHeapLen
         /\ Heap_push(e, budget)
    \/ \E budget \in AllocBudgets :
         /\ held >= 0
         /\ Heap_pop(Ptr("out"), budget)
    \/ Heap_peek(Ptr("out"))
    \/ \E h \in {NULL, heap} : HeapSizeCall(h)

SpecHeap == InitHeap /\ [][NextHeap]_vars

\* a caller that only inserts, keys 1..MaxInsertKey in any order, repeating
\* keys, with allocations that succeed or fail
MaxInsertKey == 8
InsertKeys == 1..MaxInsertKey

NextInserts ==
    \E k \in InsertKeys, alloc \in AllocOutcomes :
        AVLTree_insert(Probe(k), alloc) /\ UNCHANGED script

SpecInserts == Init /\ [][NextInserts]_vars

\* insertion order that builds, without a rotation, the sparsest tree of
\* height 4: every node's right subtree is one higher than its left one
CascadeSeed == <<5, 2, 8, 1, 3, 6, 10, 4, 7, 9, 11, 12>>
CascadeKeys == {1, 6, 7, 11, 12}

InitCascade ==
    /\ root = InsertAll(NULL, CascadeSeed, 1)
    /\ crashed = FALSE
    /\ last = Call("insert", Probe(CascadeSeed[Len(CascadeSeed)]), "ok", "STATUS_OK", <<>>, <<>>)
    /\ stored = {Probe(CascadeSeed[i]) : i \in 1..Len(CascadeSeed)}
    /\ avl = TestTree
    /\ script = <<>>
    /\ bst = NULL
    /\ allocated = {}
    /\ NoAdapters

NextCascade ==
    \/ \E k \in CascadeKeys : AVLTree_delete(Probe(k)) /\ UNCHANGED script
    \/ \E k \in CascadeKeys : AVLTree_insert(Probe(k), "ok") /\ UNCHANGED script

SpecCascade == InitCascade /\ [][NextCascade]_vars

\* the binary search tree, from BST_init on, with the keys of its example
BSTKeys == {10, 20, 30, 40, 50}

InitBST ==
    /\ bst = BST_init(4, Ptr("compare_int"), "ok")
    /\ root = NULL
    /\ crashed = FALSE
    /\ last = [Call("init", NoArg, "ok", "returned", <<>>, <<>>) EXCEPT !.on = "bst"]
    /\ stored = {}
    /\ avl = NULL
    /\ script = <<>>
    /\ allocated = {}
    /\ NoAdapters

NextBST ==
    \/ \E k \in BSTKeys, alloc \in AllocOutcomes : BST_insert(Probe(k), alloc)
    \/ \E k \in BSTKeys : BST_delete(Probe(k))

SpecBST == InitBST /\ [][NextBST]_vars

\* the tree with the address of every node followed, from AVLTree_init to
\* AVLTree_destroy
NextNodes ==
    \/ \E k \in NodeKeys, alloc \in AllocOutcomes, a \in Addresses :
         TrackedInsert(Probe(k), alloc, a) /\ UNCHANGED script
    \/ \E k \in NodeKeys : TrackedDelete(Probe(k)) /\ UNCHANGED script
    \/ TrackedDestroy /\ UNCHANGED script

SpecNodes == Init /\ [][NextNodes]_vars

\* ------------------------------------------------------------- properties
RECURSIVE Height(_)
Height(t) == IF t = NULL THEN -1 ELSE 1 + Max(Height(t.left), Height(t.right))

RECURSIVE Balanced(_)
Balanced(t) ==
    \/ t = NULL
    \/ /\ Height(t.left) - Height(t.right) \in {-1, 0, 1}
       /\ Balanced(t.left)
       /\ Balanced(t.right)

RECURSIVE DataIn(_)
DataIn(t) == IF t = NULL THEN {} ELSE {t.data} \cup DataIn(t.left) \cup DataIn(t.right)

RECURSIVE Size(_)
Size(t) == IF t = NULL THEN 0 ELSE 1 + Size(t.left) + Size(t.right)

KeysIn(t) == {e.key : e \in DataIn(t)}

RECURSIVE Ordered(_)
Ordered(t) ==
    \/ t = NULL
    \/ /\ \A e \in DataIn(t.left) : compare_int(e, t.data) < 0
       /\ \A e \in DataIn(t.right) : compare_int(e, t.data) > 0
       /\ Ordered(t.left)
       /\ Ordered(t.right)

StrictlyAscending(seq) ==
    \A i \in 1..(Len(seq) - 1) : compare_int(seq[i], seq[i + 1]) < 0

\* C1: after every completed AVLTree_insert or AVLTree_delete, every node has
\* |height(left) - height(right)| <= 1, heights being the true subtree heights.
C1_BalancedAfterEveryCall ==
    (~crashed /\ last.op \in {"insert", "delete"}) => Balanced(root)

\* C2: every node's key is greater than every key of its left subtree and
\* less than every key of its right subtree, no two nodes hold equal keys, and
\* the in-order traversal delivers the stored elements strictly ascending.
C2_OrderedNoDuplicates ==
    /\ Ordered(root)
    /\ Size(root) = Cardinality(KeysIn(root))
    /\ StrictlyAscending(_AVLTree_forEachNode(root, "TRAVERSAL_INORDER"))
    /\ last.op = "traverseInorder" =>
         /\ StrictlyAscending(last.out)
         /\ Range(last.out) = DataIn(root)

C2_Witness ==
    /\ last.op = "traverseInorder"
    /\ Len(last.out) >= 3
    /\ Height(root) = 1

\* C3: inserting n distinct keys into an empty tree and then deleting all of
\* them, in any order, makes every AVLTree_delete return STATUS_OK and leaves
\* the tree empty, so that AVLTree_search of each key returns NULL.
C3_RoundTripEmpties ==
    last.op = "delete" =>
        /\ last.status = "STATUS_OK"
        /\ stored = {} =>
             /\ root = NULL
             /\ \A k \in Keys : _AVLTree_searchNode(root, Probe(k)) = NULL

\* what AVLTree_search hands back for key on tree t, as a sequence of 0 or 1
SearchResult(t, key) ==
    LET found == _AVLTree_searchNode(t, key)
    IN  IF found # NULL THEN <<found.data>> ELSE <<>>

\* the elements inserted with STATUS_OK under this key and not deleted since
Inserted(key) == {e \in stored : e.key = key.key}

\* C4: AVLTree_search(key) returns a reference exactly when the key was
\* successfully inserted and not successfully deleted since, and the element
\* referenced is the inserted one; for every other key it returns NULL.
C4_SearchFindsStored ==
    /\ \A k \in Keys :
         /\ Cardinality(Inserted(Probe(k))) <= 1
         /\ Inserted(Probe(k)) = Range(SearchResult(root, Probe(k)))
    /\ last.op = "search" => Range(last.out) = Inserted(last.arg)

C4_Witness ==
    /\ last.op = "search"
    /\ Len(last.out) = 1
    /\ last.out[1].val # last.arg.val
    /\ Cardinality(stored) >= 3
    /\ \E k \in Keys : Inserted(Probe(k)) = {}

\* C5: AVLTree_insert of an element whose key is not in the tree, allocation
\* succeeding, returns STATUS_OK, and the stored elements are then exactly the
\* previous ones plus the new element, each stored once.
C5_InsertAddsKey ==
    [][(last'.op = "insert" /\ last'.alloc = "ok" /\ last'.arg.key \notin KeysIn(root)) =>
         /\ last'.status = "STATUS_OK"
         /\ DataIn(root') = DataIn(root) \cup {last'.arg}
         /\ Size(root') = Size(root) + 1]_vars

\* C6: AVLTree_delete of a key that is in the tree returns STATUS_OK, and the
\* stored elements are then exactly the previous ones minus the element with
\* that key, every other element still stored once.
C6_DeleteRemovesKey ==
    [][(last'.op = "delete" /\ last'.arg.key \in KeysIn(root)) =>
         /\ last'.status = "STATUS_OK"
         /\ DataIn(root') = {e \in DataIn(root) : e.key # last'.arg.key}
         /\ Size(root') = Size(root) - 1]_vars

\* C7: AVLTree_insert of an element whose key equals a stored key returns
\* STATUS_ERR_DUPLICATE_KEY and leaves the tree as it was: same nodes, same
\* links, same cached heights, same elements.
C7_DuplicateLeavesTree ==
    [][(last'.op = "insert" /\ last'.arg.key \in KeysIn(root)) =>
         /\ last'.status = "STATUS_ERR_DUPLICATE_KEY"
         /\ root' = root]_vars

\* C8: AVLTree_delete of a key that is not stored returns
\* STATUS_ERR_KEY_NOT_FOUND and leaves the tree as it was.
C8_AbsentDeleteLeavesTree ==
    [][(last'.op = "delete" /\ last'.arg.key \notin KeysIn(root)) =>
         /\ last'.status = "STATUS_ERR_KEY_NOT_FOUND"
         /\ root' = root]_vars

\* C9: when an allocation fails during AVLTree_insert the call returns
\* STATUS_ERR_ALLOC and the tree is as before the call, still ordered and
\* balanced.
C9_AllocFailureLeavesTree ==
    [][(last'.op = "insert" /\ last'.alloc = "failed") =>
         /\ last'.status = "STATUS_ERR_ALLOC"
         /\ root' = root
         /\ Ordered(root')
         /\ Balanced(root')]_vars

RECURSIVE Subtrees(_)
Subtrees(t) == IF t = NULL THEN {} ELSE {t} \cup Subtrees(t.left) \cup Subtrees(t.right)

Pos(out, e) == CHOOSE i \in 1..Len(out) : out[i] = e

\* out holds each element of t once, and at every node the node, its left
\* subtree and its right subtree appear in the order of the three ranks
VisitsInOrder(out, t, rankNode, rankLeft, rankRight) ==
    /\ Len(out) = Size(t)
    /\ Range(out) = DataIn(t)
    /\ \A n \in Subtrees(t) :
         /\ \A a \in DataIn(n.left) :
              (rankNode < rankLeft) = (Pos(out, n.data) < Pos(out, a))
         /\ \A b \in DataIn(n.right) :
              (rankNode < rankRight) = (Pos(out, n.data) < Pos(out, b))
         /\ \A a \in DataIn(n.left), b \in DataIn(n.right) :
              (rankLeft < rankRight) = (Pos(out, a) < Pos(out, b))

\* C10: each traversal returns STATUS_OK and hands every stored element to the
\* callback exactly once: a node before its left subtree before its right
\* subtree (pre-order), left subtree, node, right subtree (in-order), left
\* subtree, right subtree, node (post-order); nothing on an empty tree.
C10_TraversalOrders ==
    /\ last.op = "traversePreorder" =>
         last.status = "STATUS_OK" /\ VisitsInOrder(last.out, root, 1, 2, 3)
    /\ last.op = "traverseInorder" =>
         last.status = "STATUS_OK" /\ VisitsInOrder(last.out, root, 2, 1, 3)
    /\ last.op = "traversePostorder" =>
         last.status = "STATUS_OK" /\ VisitsInOrder(last.out, root, 3, 1, 2)

C10_Witness ==
    /\ last.op = "traversePostorder"
    /\ Len(last.out) >= 4
    /\ last.out[Len(last.out)] = root.data
    /\ root.left # NULL
    /\ root.right # NULL

TreeOps == {"insert", "delete", "search",
            "traverseInorder", "traversePreorder", "traversePostorder"}
Traversals == {"traverseInorder", "traversePreorder", "traversePostorder"}

\* C11: a public operation called with a NULL tree, or with a NULL element,
\* key or callback, reports it (AVLTree_search by returning NULL, the others
\* by STATUS_ERR_INVALID_ARGUMENT), invokes no callback, and leaves the tree
\* (if any) unchanged.
C11_AbsentArgumentRejected ==
    [][(last'.op \in TreeOps /\ (last'.on = "NULL" \/ last'.arg = NULL)) =>
         /\ last'.status = IF last'.op = "search" THEN "returned"
                           ELSE "STATUS_ERR_INVALID_ARGUMENT"
         /\ last'.out = <<>>
         /\ last'.rot = <<>>
         /\ last'.alloc = "not_called"
         /\ UNCHANGED <<root, stored, avl, crashed>>]_vars

C11_Witness ==
    /\ last.op = "delete"
    /\ last.arg = NULL
    /\ last.on = "tree"
    /\ last.status = "STATUS_ERR_INVALID_ARGUMENT"
    /\ Size(root) >= 2

\* what the operations answer on a tree that holds nothing: search returns
\* NULL, delete STATUS_ERR_KEY_NOT_FOUND, a traversal calls back zero times
EmptyTreeAnswers ==
    (avl # NULL /\ root = NULL /\ last'.on = "tree" /\ last'.arg # NULL) =>
        /\ last'.op = "search" => last'.out = <<>>
        /\ last'.op = "delete" =>
             last'.status = "STATUS_ERR_KEY_NOT_FOUND" /\ root' = NULL
        /\ last'.op \in Traversals =>
             last'.status = "STATUS_OK" /\ last'.out = <<>>

\* C12 as stated: AVLTree_init returns NULL when the element size is 0 or the
\* comparator is NULL, and otherwise an empty tree.
C12_AsStated ==
    [][/\ last'.op = "init" =>
            /\ (avl' = NULL) <=> (last'.arg.datasize = 0 \/ last'.arg.cmp = NULL)
            /\ avl' # NULL => root' = NULL
       /\ EmptyTreeAnswers]_vars

\* C12: AVLTree_init returns NULL when the element size is 0, the comparator
\* is NULL or the allocation of the tree struct fails; otherwise it returns an
\* empty tree: no root, search of any key returns NULL, delete of any key
\* returns STATUS_ERR_KEY_NOT_FOUND, traversals call back zero times.
C12_InitGivesEmptyTree ==
    [][/\ last'.op = "init" =>
            /\ (avl' = NULL) <=> \/ last'.arg.datasize = 0
                                 \/ last'.arg.cmp = NULL
                                 \/ last'.alloc = "failed"
            /\ avl' # NULL => root' = NULL
       /\ EmptyTreeAnswers]_vars

C12_Witness ==
    /\ last.op = "init"
    /\ last.alloc = "ok"
    /\ avl = TestTree
    /\ root = NULL

\* the scenario has made its first n inserts and deletes
Done(n) == Len(script) = Len(ScenarioScript) - n

\* the step is the scenario's n-th insert or delete
Completes(n) == Done(n - 1) /\ Len(script') = Len(ScenarioScript) - n

KeysOf(seq) == [i \in 1..Len(seq) |-> seq[i].key]
InorderKeys(t) == KeysOf(_AVLTree_forEachNode(t, "TRAVERSAL_INORDER"))

\* C13: in the scenario the in-order keys are [10,20,30] after the first three
\* inserts, [3,5,10,20,30] after five, [3,5,10,20,25,28,30] after seven,
\* [3,5,6,8,10,20,25,28,30] after nine, and [5,6,8,20,25,28] after the three
\* deletes, when every remaining node is balanced.
C13_ScenarioInorder ==
    /\ ~crashed
    /\ Done(3) => InorderKeys(root) = <<10, 20, 30>>
    /\ Done(5) => InorderKeys(root) = <<3, 5, 10, 20, 30>>
    /\ Done(7) => InorderKeys(root) = <<3, 5, 10, 20, 25, 28, 30>>
    /\ Done(9) => InorderKeys(root) = <<3, 5, 6, 8, 10, 20, 25, 28, 30>>
    /\ Done(12) => InorderKeys(root) = <<5, 6, 8, 20, 25, 28>> /\ Balanced(root)
    /\ last.op = "traverseInorder" =>
         last.status = "STATUS_OK" /\ KeysOf(last.out) = InorderKeys(root)

C13_Witness ==
    /\ Done(12)
    /\ last.op = "traverseInorder"
    /\ KeysOf(last.out) = <<5, 6, 8, 20, 25, 28>>

\* one rotation of the unbalanced ancestor itself, and nothing else
SingleRotation(fn, key) == <<[fn |-> fn, at |-> key, by |-> key, ok |-> TRUE]>>

\* C14: the inserts of 10 and 20 rotate nothing and the insert of 30, which
\* goes to the right of 10's right child 20, makes exactly one left rotation,
\* of the unbalanced node 10 (RR case); the insert of 5 rotates nothing and
\* the insert of 3, which goes to the left of 10's left child 5, makes exactly
\* one right rotation, of the unbalanced node 10 (LL case).
C14_SingleRotations ==
    [][/\ (Completes(1) \/ Completes(2) \/ Completes(4)) => last'.rot = <<>>
       /\ Completes(3) =>
            /\ last'.arg.key = 30
            /\ KeyOf(root) = 10 /\ KeyOf(root.right) = 20
            /\ last'.rot = SingleRotation("leftRotate", 10)
       /\ Completes(5) =>
            /\ last'.arg.key = 3
            /\ KeyOf(root.left) = 10 /\ KeyOf(root.left.left) = 5
            /\ last'.rot = SingleRotation("rightRotate", 10)]_vars

C14_Witness ==
    /\ Done(5)
    /\ last.op = "insert"
    /\ last.arg.key = 3
    /\ last.rot = SingleRotation("rightRotate", 10)

\* the trace of a right-left double rotation: the right child of an ancestor
\* is rotated right, then the ancestor is rotated left
IsRightLeft(rot) ==
    /\ Len(rot) = 2
    /\ rot[1].fn = "rightRotate" /\ rot[1].at # rot[1].by
    /\ rot[2].fn = "leftRotate" /\ rot[2].at = rot[2].by
    /\ rot[1].by = rot[2].by

\* the trace of a left-right double rotation: the left child of an ancestor
\* is rotated left, then the ancestor is rotated right
IsLeftRight(rot) ==
    /\ Len(rot) = 2
    /\ rot[1].fn = "leftRotate" /\ rot[1].at # rot[1].by
    /\ rot[2].fn = "rightRotate" /\ rot[2].at = rot[2].by
    /\ rot[1].by = rot[2].by

NodeOf(t, k) == _AVLTree_searchNode(t, Probe(k))
IsLeaf(n) == n # NULL /\ n.left = NULL /\ n.right = NULL
HasOneChild(n) == n # NULL /\ (n.left = NULL) # (n.right = NULL)
HasTwoChildren(n) == n # NULL /\ n.left # NULL /\ n.right # NULL

\* the scenario's n-th call is a delete of key k that finds and removes it
Deletes(n, k) ==
    /\ last'.op = "delete"
    /\ last'.arg.key = k
    /\ last'.status = "STATUS_OK"
    /\ KeysIn(root') = KeysIn(root) \ {k}

Count(list) == Len(list.nodes)

Reverse(seq) == [i \in 1..Len(seq) |-> seq[Len(seq) + 1 - i]]

\* C18: a stack never holds more than stackSize elements; Stack_isFull is
\* true exactly when it holds stackSize; Stack_push on a stack that holds
\* stackSize elements returns STATUS_ERR_OVERFLOW and leaves the stack as it was.
C18_StackCapacity ==
    [][/\ Count(stack.list) <= stack.stackSize
       /\ Count(stack'.list) <= stack'.stackSize
       /\ Stack_isFull(stack) <=> (Count(stack.list) = stack.stackSize)
       /\ Stack_isFull(stack') <=> (Count(stack'.list) = stack'.stackSize)
       /\ (seen'.op = "Stack_push" /\ Count(stack.list) = stack.stackSize) =>
            /\ seen'.status = "STATUS_ERR_OVERFLOW"
            /\ stack' = stack
            /\ pushed' = pushed]_vars

C18_Witness ==
    /\ seen.op = "Stack_push"
    /\ seen.status = "STATUS_ERR_OVERFLOW"
    /\ stack.stackSize >= 2
    /\ Count(stack.list) = stack.stackSize

\* C19: the stack holds the elements pushed and not yet popped, newest at the
\* head; Stack_peek copies out the newest of them and changes nothing;
\* Stack_pop removes that element and no other.
C19_StackLifo ==
    [][/\ stack'.list.nodes = Reverse(pushed')
       /\ (seen'.op = "Stack_peek" /\ pushed # <<>>) =>
            /\ seen'.status = "STATUS_OK"
            /\ seen'.out = <<pushed[Len(pushed)]>>
            /\ stack' = stack
       /\ (seen'.op = "Stack_pop" /\ pushed # <<>>) =>
            /\ seen'.status = "STATUS_OK"
            /\ stack'.list.nodes = Reverse(SubSeq(pushed, 1, Len(pushed) - 1))
       /\ (seen'.op = "Stack_push" /\ seen'.status = "STATUS_OK") =>
            stack'.list.nodes = Reverse(Append(pushed, seen'.arg[1]))]_vars

C19_Witness ==
    /\ seen.op = "Stack_peek"
    /\ Len(pushed) >= 2
    /\ pushed[1] # pushed[Len(pushed)]
    /\ seen.out = <<pushed[Len(pushed)]>>

\* C20: the queue holds the elements enqueued and not yet dequeued, oldest at
\* the tail; Queue_peek copies out the oldest of them and changes nothing;
\* Queue_dequeue removes that element and no other, so elements leave in the
\* order they were enqueued.
C20_QueueFifo ==
    [][/\ queue'.list.nodes = Reverse(queued')
       /\ (seen'.op = "Queue_peek" /\ queued # <<>>) =>
            /\ seen'.status = "STATUS_OK"
            /\ seen'.out = <<Head(queued)>>
            /\ queue' = queue
       /\ (seen'.op = "Queue_dequeue" /\ queued # <<>>) =>
            /\ seen'.status = "STATUS_OK"
            /\ queue'.list.nodes = Reverse(Tail(queued))
       /\ (seen'.op = "Queue_enqueue" /\ seen'.status = "STATUS_OK") =>
            queue'.list.nodes = Reverse(Append(queued, seen'.arg[1]))]_vars

C20_Witness ==
    /\ seen.op = "Queue_peek"
    /\ Len(queued) >= 2
    /\ queued[1] # queued[Len(queued)]
    /\ seen.out = <<queued[1]>>


\* C21: on an empty adapter Stack_pop and Queue_dequeue return
\* STATUS_ERR_UNDERFLOW, Stack_peek and Queue_peek return STATUS_ERR_EMPTY and
\* copy nothing out, and the adapter is unchanged and still empty; this holds
\* for a new adapter and for one whose elements have all been removed.
C21_EmptyAdapterFails ==
    [][/\ (seen'.op = "Stack_pop" /\ Count(stack.list) = 0) =>
            /\ seen'.status = "STATUS_ERR_UNDERFLOW"
            /\ stack' = stack /\ Stack_isEmpty(stack') /\ Count(stack'.list) = 0
       /\ (seen'.op = "Stack_peek" /\ Count(stack.list) = 0) =>
            /\ seen'.status = "STATUS_ERR_EMPTY" /\ seen'.out = <<>>
            /\ stack' = stack /\ Stack_isEmpty(stack') /\ Count(stack'.list) = 0
       /\ (seen'.op = "Queue_dequeue" /\ Count(queue.list) = 0) =>
            /\ seen'.status = "STATUS_ERR_UNDERFLOW"
            /\ queue' = queue /\ Queue_isEmpty(queue') /\ Count(queue'.list) = 0
       /\ (seen'.op = "Queue_peek" /\ Count(queue.list) = 0) =>
            /\ seen'.status = "STATUS_ERR_EMPTY" /\ seen'.out = <<>>
            /\ queue' = queue /\ Queue_isEmpty(queue') /\ Count(queue'.list) = 0
       /\ (seen'.op \in {"Stack_pop", "Queue_dequeue"} /\ seen'.status = "STATUS_OK"
           /\ Count(stack'.list) = 0 /\ Count(queue'.list) = 0) =>
            Stack_isEmpty(stack') /\ Queue_isEmpty(queue')]_vars

C21_Witness ==
    /\ seen.op = "Queue_dequeue"
    /\ seen.status = "STATUS_ERR_UNDERFLOW"
    /\ Count(queue.list) = 0
    /\ Count(stack.list) = 0
    /\ stack.stackSize > 0


\* C22 as stated: LinkedList_delete on an empty list returns
\* STATUS_ERR_UNDERFLOW whatever the index; on a non-empty list an index of 0
\* or an index greater than the size returns STATUS_ERR_INVALID_ARGUMENT; the
\* list is unchanged in both cases.
C22_AsStated ==
    [][seen'.op = "LinkedList_delete" =>
         /\ Count(linkedlist) = 0 =>
              seen'.status = "STATUS_ERR_UNDERFLOW" /\ linkedlist' = linkedlist
         /\ (Count(linkedlist) > 0
             /\ (seen'.arg[1].index = 0 \/ seen'.arg[1].index > Count(linkedlist))) =>
              seen'.status = "STATUS_ERR_INVALID_ARGUMENT" /\ linkedlist' = linkedlist]_vars

\* what the code does instead: the index test comes first, so on an empty list
\* every index is out of range and STATUS_ERR_UNDERFLOW is never returned
C22_IndexTestedFirst ==
    [][seen'.op = "LinkedList_delete" =>
         /\ (seen'.arg[1].index = 0 \/ seen'.arg[1].index > Count(linkedlist)) =>
              seen'.status = "STATUS_ERR_INVALID_ARGUMENT" /\ linkedlist' = linkedlist
         /\ seen'.status # "STATUS_ERR_UNDERFLOW"]_vars


\* no element at index i > 0 compares less than its parent at (i - 1) / 2
HeapOrdered(h) ==
    \A i \in 1..(Heap_size(h).size - 1) : compare_min(At(h, i), At(h, PARENT(i))) >= 0

\* how many times e occurs in seq
Occ(seq, e) == Cardinality({i \in 1..Len(seq) : seq[i] = e})

\* seq2 holds what seq1 holds and one more copy of e
OneMore(seq1, seq2, e) ==
    /\ Len(seq2) = Len(seq1) + 1
    /\ \A x \in Items : Occ(seq2, x) = Occ(seq1, x) + (IF x = e THEN 1 ELSE 0)

\* no element of seq compares less than e, which is in seq
Least(seq, e) ==
    /\ e \in Range(seq)
    /\ \A x \in Range(seq) : compare_min(x, e) >= 0

\* C23: on a heap that satisfies the heap order, a Heap_pop or Heap_peek that
\* returns STATUS_OK copies out an element that no stored element compares
\* less than; Heap_pop removes exactly that one element and Heap_peek nothing;
\* after a Heap_push or Heap_pop that returns STATUS_OK the array satisfies the
\* heap order again. A new heap satisfies it, so it holds after any sequence
\* of pushes and pops in which no allocation fails.
C23_HeapOrder ==
    [][HeapOrdered(heap) =>
         /\ (seen'.op = "Heap_pop" /\ seen'.status = "STATUS_OK") =>
              /\ Least(heap.arr.data, seen'.out[1])
              /\ OneMore(heap'.arr.data, heap.arr.data, seen'.out[1])
              /\ HeapOrdered(heap')
         /\ (seen'.op = "Heap_peek" /\ seen'.status = "STATUS_OK") =>
              /\ Least(heap.arr.data, seen'.out[1])
              /\ heap' = heap
         /\ (seen'.op = "Heap_push" /\ seen'.status = "STATUS_OK") =>
              /\ OneMore(heap.arr.data, heap'.arr.data, seen'.arg[1])
              /\ HeapOrdered(heap')
         /\ (seen'.op = "Heap_pop" /\ heap.arr.size > 0 /\ seen'.status # "STATUS_ERR_ALLOC") =>
              seen'.status = "STATUS_OK"
         /\ (seen'.op = "Heap_push" /\ seen'.status # "STATUS_ERR_ALLOC") =>
              seen'.status = "STATUS_OK"]_vars

C23_Witness ==
    /\ seen.op = "Heap_pop"
    /\ seen.status = "STATUS_OK"
    /\ held = 3
    /\ heap.arr.size = 3
    /\ HeapOrdered(heap)
    /\ heap.arr.data[2] # heap.arr.data[3]
    /\ heap.arr.data[1] # heap.arr.data[2]
    /\ compare_min(seen.out[1], heap.arr.data[1]) < 0


\* C24 as stated: Heap_size returns 0 when the heap handle is NULL, and
\* otherwise the number of elements stored, which is the number of pushes
\* that returned STATUS_OK less the number of pops that returned STATUS_OK.
C24_AsStated ==
    [][seen'.op = "Heap_size" =>
         /\ seen'.arg[1] = NULL => (~crashed' /\ seen'.out = <<SizeOut(0)>>)
         /\ seen'.arg[1] # NULL =>
              /\ seen'.out = <<SizeOut(Len(heap.arr.data))>>
              /\ seen'.out = <<SizeOut(held)>>]_vars

\* what the code does instead: with a heap it returns the number of elements
\* in the array, which a push or pop that returned STATUS_ERR_ALLOC may have
\* changed; with NULL it reads through the NULL pointer
C24_SizeOfArray ==
    [][seen'.op = "Heap_size" =>
         /\ seen'.arg[1] = NULL => (crashed' /\ seen'.status = "SIGSEGV")
         /\ seen'.arg[1] # NULL =>
              /\ seen'.out = <<SizeOut(Len(heap.arr.data))>>
              /\ heap' = heap]_vars


\* the ancestors AVLTree_delete(key) reaches on its unwind through t, each as
\* its slot holds it after step 1, before its height is updated; an ancestor
\* above a call that died is never reached
RECURSIVE Unwinds(_, _)
Unwinds(n, key) ==
    IF n = NULL THEN {}
    ELSE IF compare_int(key, n.data) < 0
    THEN LET r == _AVLTree_deleteNode(n.left, key, DeleteStatus0)
         IN  Unwinds(n.left, key) \cup (IF r.segv THEN {} ELSE {[n EXCEPT !.left = r.node]})
    ELSE IF compare_int(key, n.data) > 0
    THEN LET r == _AVLTree_deleteNode(n.right, key, DeleteStatus0)
         IN  Unwinds(n.right, key) \cup (IF r.segv THEN {} ELSE {[n EXCEPT !.right = r.node]})
    ELSE IF n.left = NULL /\ n.right = NULL THEN {}
    ELSE IF n.left = NULL THEN {n.right}
    ELSE IF n.right = NULL THEN {n.left}
    ELSE LET inorderSuccessor == _AVLTree_getMin(n.right)
             r == _AVLTree_deleteNode(n.right, inorderSuccessor.data, DeleteStatus0)
         IN  Unwinds(n.right, inorderSuccessor.data)
             \cup (IF r.segv THEN {}
                   ELSE {[n EXCEPT !.data = inorderSuccessor.data, !.right = r.node]})

\* what steps 2 and 3 make of ancestor n0, started with an empty trace
Rebalanced(n0) == DeleteRebalance(n0, Ret(NULL, DeleteStatus0, <<>>))

\* the balance factor an ancestor has on the unwind, its height updated
UnwindFactor(n0) == _AVLTree_getBalanceFactor(_AVLTree_updateHeight(n0))

\* the right-left double rotation of n: its right child rotated right and
\* stored back in its right slot, then n rotated left
RightLeft(n) == _AVLTree_leftRotate([n EXCEPT !.right = _AVLTree_rightRotate(n.right)])

\* the left-right double rotation of n: its left child rotated left and
\* stored back in its left slot, then n rotated right
LeftRight(n) == _AVLTree_rightRotate([n EXCEPT !.left = _AVLTree_leftRotate(n.left)])

\* C25 as stated: in AVLTree_delete an ancestor with balance factor < -1 is
\* rotated left once when its right child's balance factor is <= 0; when it is
\* > 0 the right child is rotated right, stored back in the ancestor's right
\* slot, and the ancestor is then rotated left.
C25_AsStated ==
    [][last'.op = "delete" =>
         \A n0 \in Unwinds(root, last'.arg) :
            LET n == _AVLTree_updateHeight(n0)
                res == Rebalanced(n0)
            IN  UnwindFactor(n0) < -1 =>
                  IF _AVLTree_getBalanceFactor(n.right) <= 0
                  THEN /\ ~res.segv
                       /\ res.node = _AVLTree_leftRotate(n)
                       /\ res.rot = <<RotCall("leftRotate", n, n)>>
                  ELSE /\ ~res.segv
                       /\ res.node = RightLeft(n)
                       /\ Len(res.rot) = 2
                       /\ res.rot[1] = RotCall("rightRotate", n.right, n)
                       /\ res.rot[2].fn = "leftRotate" /\ res.rot[2].at = KeyOf(n)]_vars

\* the half of C25 that the code keeps: the single left rotation
C25_SingleLeftRotation ==
    [][last'.op = "delete" =>
         \A n0 \in Unwinds(root, last'.arg) :
            LET n == _AVLTree_updateHeight(n0)
                res == Rebalanced(n0)
            IN  (UnwindFactor(n0) < -1 /\ _AVLTree_getBalanceFactor(n.right) <= 0) =>
                  /\ ~res.segv
                  /\ res.node = _AVLTree_leftRotate(n)
                  /\ res.rot = <<RotCall("leftRotate", n, n)>>]_vars


\* C26: in AVLTree_delete an ancestor with balance factor > 1 is rotated right
\* once when its left child's balance factor is >= 0; when it is < 0 the left
\* child is rotated left, stored back in the ancestor's left slot, and the
\* ancestor is then rotated right; the root of the subtree then has a balance
\* factor in [-1, 1].
C26_LeftHeavyRebalance ==
    [][last'.op = "delete" =>
         \A n0 \in Unwinds(root, last'.arg) :
            LET n == _AVLTree_updateHeight(n0)
                res == Rebalanced(n0)
            IN  UnwindFactor(n0) > 1 =>
                  /\ ~res.segv
                  /\ _AVLTree_getBalanceFactor(res.node) \in {-1, 0, 1}
                  /\ Height(res.node.left) - Height(res.node.right) \in {-1, 0, 1}
                  /\ IF _AVLTree_getBalanceFactor(n.left) >= 0
                     THEN /\ res.node = _AVLTree_rightRotate(n)
                          /\ res.rot = <<RotCall("rightRotate", n, n)>>
                     ELSE /\ res.node = LeftRight(n)
                          /\ Len(res.rot) = 2
                          /\ res.rot[1] = RotCall("leftRotate", n.left, n)
                          /\ res.rot[2].fn = "rightRotate" /\ res.rot[2].at = KeyOf(n)]_vars


\* C27: no AVLTree_delete dereferences an absent node: every
\* _AVLTree_rightRotate(n) its rebalancing calls has a node n with a left
\* child, every _AVLTree_leftRotate(n) a node n with a right child.
C27_DeleteRotatesExistingNodes ==
    [][last'.op = "delete" =>
         /\ \A i \in 1..Len(last'.rot) : last'.rot[i].ok
         /\ last'.status # "SIGSEGV"
         /\ ~crashed']_vars


\* every node's cached height is the height of its subtree
HeightsCached(t) == \A n \in Subtrees(t) : n.height = Height(n)

\* C28: after every call of a sequence of AVLTree_insert calls alone
\* (successful, duplicate, or failing on allocation) from an empty tree, no
\* call has died and every node has |height(left) - height(right)| <= 1, by
\* the true heights and by the cached ones.
C28_InsertsKeepBalance ==
    /\ ~crashed
    /\ Balanced(root)
    /\ HeightsCached(root)
    /\ \A n \in Subtrees(root) : _AVLTree_getBalanceFactor(n) \in {-1, 0, 1}

C28_Witness ==
    /\ last.op = "insert"
    /\ IsRightLeft(last.rot)
    /\ Height(root) = 3
    /\ last.rot[2].by # KeyOf(root)

\* the trace of one rebalancing action: nothing, one single rotation of an
\* ancestor, or one double rotation at an ancestor
OneRebalance(rot) ==
    \/ rot = <<>>
    \/ Len(rot) = 1 /\ rot[1].at = rot[1].by /\ rot[1].ok
    \/ IsRightLeft(rot) /\ rot[1].ok /\ rot[2].ok
    \/ IsLeftRight(rot) /\ rot[1].ok /\ rot[2].ok

\* C29: one AVLTree_insert into a balanced tree makes at most one rebalancing
\* action (a single or a double rotation) at one ancestor; every ancestor
\* above it is found balanced, and the tree is balanced afterwards.
C29_OneRebalancePerInsert ==
    [][(last'.op = "insert" /\ Balanced(root)) =>
         /\ OneRebalance(last'.rot)
         /\ last'.status # "STATUS_OK" => last'.rot = <<>>
         /\ Balanced(root')]_vars

C29_Witness ==
    /\ last.op = "insert"
    /\ IsLeftRight(last.rot)
    /\ Height(root) = 3
    /\ last.rot[2].by # KeyOf(root)
    /\ Size(root) = MaxInsertKey


\* the ancestors that rotated during the last call
RotatedBy(rot) == {rot[i].by : i \in 1..Len(rot)}

\* C30 as stated: AVLTree_delete rotates at every ancestor on the unwind whose
\* balance factor is outside [-1, 1], at two or more ancestors where needed,
\* and the tree is balanced at every node afterwards.
C30_AsStated ==
    [][(last'.op = "delete" /\ Balanced(root)) =>
         /\ ~crashed'
         /\ \A n0 \in Unwinds(root, last'.arg) :
              UnwindFactor(n0) \notin {-1, 0, 1} => KeyOf(n0) \in RotatedBy(last'.rot)
         /\ \A i \in 1..Len(last'.rot) : last'.rot[i].ok
         /\ Balanced(root')]_vars

\* the part of C30 that the code keeps: a delete on the sparsest tree of
\* height 4 rebalances at two ancestors and leaves a balanced tree
C30_CascadeReached ==
    /\ last.op = "delete"
    /\ last.status = "STATUS_OK"
    /\ last.rot = SingleRotation("leftRotate", 2) \o SingleRotation("leftRotate", 5)
    /\ Balanced(root)
    /\ Size(root) = Len(CascadeSeed) - 1


\* the part of C30 that holds whenever the call returns: every ancestor whose
\* balance factor on the unwind is outside [-1, 1] is the caller of a rotation
C30_EveryAncestorRotated ==
    [][(last'.op = "delete" /\ ~crashed') =>
         \A n0 \in Unwinds(root, last'.arg) :
            UnwindFactor(n0) \notin {-1, 0, 1} => KeyOf(n0) \in RotatedBy(last'.rot)]_vars


\* C32: after every public operation every node caches 1 + the larger of its
\* subtrees' true heights, an empty subtree counting as -1: a leaf caches 0 and
\* the cached height is the true height, also at the nodes rotations moved.
C32_CachedHeights ==
    \A n \in Subtrees(root) :
        /\ n.height = 1 + Max(Height(n.left), Height(n.right))
        /\ n.height = Height(n)
        /\ IsLeaf(n) => n.height = 0

\* an insert or a delete has made a double rotation (two different rotations
\* asked for by one ancestor) and left a tree of height 2 or more
C32_Witness ==
    /\ last.op \in {"insert", "delete"}
    /\ last.status = "STATUS_OK"
    /\ Len(last.rot) = 2
    /\ last.rot[1].ok /\ last.rot[2].ok
    /\ last.rot[1].fn # last.rot[2].fn
    /\ last.rot[1].by = last.rot[2].by
    /\ Height(root) >= 2


\* how many of the flags of a status struct are set
FlagsSet(status) == Cardinality({f \in DOMAIN status : status[f]})

\* the keys a caller of the deep tree can pass, present or not
ProbeKeys == 0..13

\* C34: with a tree and a non-NULL pointer, AVLTree_insert and AVLTree_delete
\* never return STATUS_ERR_UNKNOWN: an insert records exactly one of inserted,
\* duplicate and allocation-failed, a delete exactly one of deleted and
\* key-not-found, and the removal of the in-order successor finds it.
C34_NeverUnknown ==
    ~crashed =>
      /\ \A k \in ProbeKeys, alloc \in AllocOutcomes :
           LET r == _AVLTree_insertNode(root, Probe(k), alloc, InsertStatus0)
           IN  /\ FlagsSet(r.status) = 1
               /\ InsertReturn(r.status) # "STATUS_ERR_UNKNOWN"
      /\ \A k \in ProbeKeys :
           LET r == _AVLTree_deleteNode(root, Probe(k), DeleteStatus0)
               n == NodeOf(root, k)
           IN  /\ FlagsSet(r.status) = 1
               /\ DeleteReturn(r.status) # "STATUS_ERR_UNKNOWN"
               /\ HasTwoChildren(n) =>
                    LET s == _AVLTree_deleteNode(n.right, _AVLTree_getMin(n.right).data,
                                                 DeleteStatus0)
                    IN  s.status.isDeleted /\ ~s.status.isKeyNotFound
      /\ last.op \in {"insert", "delete"} => last.status # "STATUS_ERR_UNKNOWN"

\* the first delete on the seed tree, of a key held by a node with two
\* children, has returned STATUS_OK
C34_Witness ==
    /\ last.op = "delete"
    /\ last.status = "STATUS_OK"
    /\ Size(root) = Len(DeepSeed) - 1
    /\ HasTwoChildren(NodeOf(InsertAll(NULL, DeepSeed, 1), last.arg.key))


\* C35: AVLTree_search and the three traversals are read-only: the root, every
\* link, every cached height and every stored element stay as they were, and
\* no rotation is made (the callback only reads the element it is given).
C35_ReadOnly ==
    [][last'.op \in ({"search"} \cup Traversals) =>
         /\ root' = root
         /\ stored' = stored
         /\ avl' = avl
         /\ last'.rot = <<>>
         /\ ~crashed']_vars

\* a search has found a key below the root of a tree of height 3 or more
C35_Witness ==
    /\ last.op = "search"
    /\ last.out # <<>>
    /\ last.out[1] # root.data
    /\ last.out[1] \in DataIn(root)
    /\ Height(root) >= 3


RECURSIVE Depth(_, _)
\* the nodes a descent for key passes, down to the key's node or an empty slot
Depth(t, key) ==
    IF t = NULL THEN 0
    ELSE IF compare_int(key, t.data) = 0 THEN 1
    ELSE IF compare_int(key, t.data) < 0 THEN 1 + Depth(t.left, key)
    ELSE 1 + Depth(t.right, key)

\* C36 as stated: every insert, delete, search and traversal on a reachable
\* tree terminates and returns a result; the descent of an insert, delete or
\* search is one root-to-leaf path, and a traversal visits each node once.
C36_AsStated ==
    [][last'.op \in TreeOps =>
         /\ ~crashed'
         /\ last'.status \in {"STATUS_OK", "STATUS_ERR_ALLOC", "STATUS_ERR_DUPLICATE_KEY",
                              "STATUS_ERR_KEY_NOT_FOUND", "returned"}
         /\ last'.op \in {"insert", "delete", "search"} =>
              Depth(root, last'.arg) <= Height(root) + 1
         /\ last'.op \in Traversals =>
              /\ Len(last'.out) = Size(root)
              /\ Range(last'.out) = DataIn(root)]_vars

\* the part of C36 that holds: a call that returns has returned one of the
\* documented results, and a traversal has visited each node once
C36_ReturnedCalls ==
    [][(last'.op \in TreeOps /\ ~crashed') =>
         /\ last'.status \in {"STATUS_OK", "STATUS_ERR_ALLOC", "STATUS_ERR_DUPLICATE_KEY",
                              "STATUS_ERR_KEY_NOT_FOUND", "returned"}
         /\ last'.op \in {"insert", "delete", "search"} =>
              Depth(root, last'.arg) <= Height(root) + 1
         /\ last'.op \in Traversals =>
              /\ Len(last'.out) = Size(root)
              /\ Range(last'.out) = DataIn(root)]_vars


\* a tree without its cached heights
RECURSIVE Shape(_)
Shape(t) ==
    IF t = NULL THEN NULL
    ELSE [data |-> t.data, left |-> Shape(t.left), right |-> Shape(t.right)]

Leaf(k) == [data |-> Probe(k), left |-> NULL, right |-> NULL]

\* insertion and deletion as a binary search tree without balancing makes them
RECURSIVE PlainInsert(_, _)
PlainInsert(t, e) ==
    IF t = NULL THEN [data |-> e, left |-> NULL, right |-> NULL]
    ELSE IF compare_int(e, t.data) < 0 THEN [t EXCEPT !.left = PlainInsert(t.left, e)]
    ELSE IF compare_int(e, t.data) > 0 THEN [t EXCEPT !.right = PlainInsert(t.right, e)]
    ELSE t

RECURSIVE PlainMin(_)
PlainMin(t) == IF t.left = NULL THEN t.data ELSE PlainMin(t.left)

RECURSIVE PlainDelete(_, _)
PlainDelete(t, key) ==
    IF t = NULL THEN NULL
    ELSE IF compare_int(key, t.data) < 0 THEN [t EXCEPT !.left = PlainDelete(t.left, key)]
    ELSE IF compare_int(key, t.data) > 0 THEN [t EXCEPT !.right = PlainDelete(t.right, key)]
    ELSE IF t.left = NULL THEN t.right
    ELSE IF t.right = NULL THEN t.left
    ELSE [t EXCEPT !.data = PlainMin(t.right),
                   !.right = PlainDelete(t.right, PlainMin(t.right))]

\* the allocation outcome that gives a call the malloc result the caller saw
AllocSeen(call) == IF call.alloc = "failed" THEN "node_fail" ELSE "ok"

RECURSIVE AddrSeq(_)
AddrSeq(t) ==
    IF t = NULL THEN <<>>
    ELSE <<t.addr>> \o AddrSeq(t.left) \o AddrSeq(t.right)

\* the node at address a, and the way to it from the root
NodeAt(t, a) == CHOOSE n \in Subtrees(t) : n.addr = a

RECURSIVE PathTo(_, _)
PathTo(t, a) ==
    IF t = NULL \/ a \notin Range(AddrSeq(t)) THEN <<"absent">>
    ELSE IF t.addr = a THEN <<>>
    ELSE IF a \in Range(AddrSeq(t.left)) THEN <<"left">> \o PathTo(t.left, a)
    ELSE <<"right">> \o PathTo(t.right, a)

\* a delete of a key held by a node with two children has returned STATUS_OK
TwoChildDelete ==
    /\ last'.op = "delete"
    /\ last'.status = "STATUS_OK"
    /\ HasTwoChildren(_AVLTree_searchNode(root, last'.arg))

\* what every such delete does: the node stays linked and allocated, takes
\* the element of its in-order successor, and the successor's node, which
\* has no left child, is the one freed
SuccessorSpliced ==
    LET n == _AVLTree_searchNode(root, last'.arg)
        inorderSuccessor == _AVLTree_getMin(n.right)
    IN  /\ n.addr \in Range(AddrSeq(root'))
        /\ Block("node", n.addr) \in allocated'
        /\ Block("data", n.addr) \in allocated'
        /\ NodeAt(root', n.addr).data = inorderSuccessor.data
        /\ \A k \in KeysIn(n.right) : inorderSuccessor.data.key <= k
        /\ inorderSuccessor.left = NULL
        /\ inorderSuccessor.addr # n.addr
        /\ last'.freed = FreeNode(inorderSuccessor)
        /\ inorderSuccessor.addr \notin Range(AddrSeq(root'))

\* the rotations of the call were all asked for below the node: by nodes of
\* its right subtree other than the successor, whose key the node now holds
RotationsBelow ==
    LET n == _AVLTree_searchNode(root, last'.arg)
    IN  RotatedBy(last'.rot) \subseteq (KeysIn(n.right) \ {_AVLTree_getMin(n.right).data.key})

LinkedOnce(t, blocks) ==
    LET s == AddrSeq(t)
    IN  /\ \A i, j \in 1..Len(s) : s[i] = s[j] => i = j
        /\ blocks = {Block("node", s[i]) : i \in 1..Len(s)}
                      \cup {Block("data", s[i]) : i \in 1..Len(s)}

\* no block is freed twice in one call, and none that was not allocated
FreedOnce(freed, blocks) ==
    /\ \A i, j \in 1..Len(freed) : freed[i] = freed[j] => i = j
    /\ Range(freed) \subseteq blocks

\* C33: after every completed insert or delete the allocated nodes are the
\* nodes reachable from the root, each through exactly one parent slot (none
\* leaked, none freed and still linked, none shared or on a cycle), and
\* AVLTree_destroy frees every node and every element copy exactly once.
C33_NodesOwnedOnce ==
    [][(last'.op \in {"insert", "delete", "destroy"} /\ ~crashed') =>
         /\ LinkedOnce(root', allocated')
         /\ last'.op = "insert" =>
              /\ Len(AddrSeq(root')) =
                   Len(AddrSeq(root)) + (IF last'.status = "STATUS_OK" THEN 1 ELSE 0)
              /\ Range(last'.freed) \cap allocated = {}
         /\ last'.op = "delete" =>
              /\ FreedOnce(last'.freed, allocated)
              /\ Len(last'.freed) = IF last'.status = "STATUS_OK" THEN 2 ELSE 0
         /\ last'.op = "destroy" =>
              /\ FreedOnce(last'.freed, allocated)
              /\ Range(last'.freed) = allocated
              /\ Len(last'.freed) = 2 * Len(AddrSeq(root))
              /\ allocated' = {}]_vars

\* AVLTree_destroy has freed a tree of three or more nodes, built by inserts
\* and deletes, and nothing is left allocated
C33_Witness ==
    /\ last.op = "destroy"
    /\ Len(last.freed) >= 6
    /\ allocated = {}
    /\ root = NULL
    /\ avl = NULL

====
